---------------------------- MODULE Spec2Model ----------------------------
(***************************************************************************)
(* A model of the FTP client of src/ftp.go: the control session (Connect,  *)
(* Login, cmd), the data-connection negotiator (openDataConn, pasv, epsv), *)
(* the transfer engine (cmdDataConnFrom, RetrFrom, StorFrom,               *)
(* response.Close) and the listing operations, stepping against a server   *)
(* that answers every command with one reply on the control channel.       *)
(*                                                                         *)
(* Text is a sequence of one-character strings; a line of the control      *)
(* channel is the text of the line without its CRLF.                       *)
(***************************************************************************)
EXTENDS Integers, Sequences, FiniteSets, TLC

(***************************************************************************)
(* Bounds of the model.                                                    *)
(***************************************************************************)
\* number of operations the caller starts on a session after Connect
MaxOps == 2

(***************************************************************************)
(* Reply codes (the status-code enumeration the core compares against).    *)
(***************************************************************************)
StatusAboutToSend == 150
StatusAlreadyOpen == 125
StatusCommandOK == 200
StatusSystem == 211
StatusReady == 220
StatusClosingDataConnection == 226
StatusPassiveMode == 227
StatusExtendedPassiveMode == 229
StatusLoggedIn == 230
StatusUserOK == 331
StatusRequestFilePending == 350

(***************************************************************************)
(* Strings: strconv.Atoi, strings.Index, strings.LastIndex, strings.Split, *)
(* slicing.  Indices are 0-based as in Go; -1 is "not found".              *)
(***************************************************************************)
DigitChars == <<"0", "1", "2", "3", "4", "5", "6", "7", "8", "9">>

IsDigit(c) == \E i \in 1..10 : DigitChars[i] = c

DigitVal(c) == (CHOOSE i \in 1..10 : DigitChars[i] = c) - 1

RECURSIVE NatVal(_)
NatVal(s) == IF s = <<>> THEN 0
             ELSE 10 * NatVal(SubSeq(s, 1, Len(s) - 1)) + DigitVal(s[Len(s)])

\* strconv.Atoi: an optional sign, then one or more decimal digits
Atoi(s) ==
    LET signed == s # <<>> /\ s[1] \in {"+", "-"}
        body   == IF signed THEN Tail(s) ELSE s
    IN  IF body = <<>> \/ \E i \in 1..Len(body) : ~IsDigit(body[i])
        THEN [ok |-> FALSE, val |-> 0]
        ELSE [ok |-> TRUE,
              val |-> IF signed /\ s[1] = "-" THEN 0 - NatVal(body) ELSE NatVal(body)]

\* the three digits of a reply code
CodeStr(n) == <<DigitChars[(n \div 100) + 1],
                DigitChars[((n \div 10) % 10) + 1],
                DigitChars[(n % 10) + 1]>>

HasAt(s, sub, i) == /\ i + Len(sub) <= Len(s)
                    /\ SubSeq(s, i + 1, i + Len(sub)) = sub

Index(s, sub) ==
    IF \E i \in 0..Len(s) : HasAt(s, sub, i)
    THEN CHOOSE i \in 0..Len(s) : HasAt(s, sub, i) /\ \A j \in 0..(i - 1) : ~HasAt(s, sub, j)
    ELSE -1

LastIndex(s, sub) ==
    IF \E i \in 0..Len(s) : HasAt(s, sub, i)
    THEN CHOOSE i \in 0..Len(s) : HasAt(s, sub, i) /\ \A j \in (i + 1)..Len(s) : ~HasAt(s, sub, j)
    ELSE -1

\* s[a:b] is defined when 0 <= a <= b <= len(s); anything else panics
SliceOK(s, a, b) == 0 <= a /\ a <= b /\ b <= Len(s)

Slice(s, a, b) == SubSeq(s, a + 1, b)

RECURSIVE Split(_, _)
Split(s, sep) ==
    LET i == Index(s, <<sep>>)
    IN  IF i = -1 THEN <<s>>
        ELSE <<Slice(s, 0, i)>> \o Split(Slice(s, i + 1, Len(s)), sep)

HasPrefix(s, p) == HasAt(s, p, 0)

RECURSIVE TrimSpace(_)
TrimSpace(s) ==
    IF s # <<>> /\ s[1] = " " THEN TrimSpace(Tail(s))
    ELSE IF s # <<>> /\ s[Len(s)] = " " THEN TrimSpace(SubSeq(s, 1, Len(s) - 1))
    ELSE s

(***************************************************************************)
(* Errors.  NoErr is Go's nil.                                             *)
(***************************************************************************)
NoErr == [kind |-> "nil", code |-> 0, msg |-> <<>>]

\* a failed read or write of a socket
IOErr == [kind |-> "io", code |-> 0, msg |-> <<>>]

\* textproto.ProtocolError
ProtoErr(what, line) == [kind |-> what, code |-> 0, msg |-> line]

\* &textproto.Error{Code, Msg}
ReplyErr(code, msg) == [kind |-> "reply", code |-> code, msg |-> msg]

\* errors.New(message)
TextErr(what, msg) == [kind |-> what, code |-> 0, msg |-> msg]

(***************************************************************************)
(* net/textproto: parseCodeLine, as called by ReadResponse and             *)
(* ReadCodeLine.                                                           *)
(***************************************************************************)
ExpectMismatch(expectCode, code) ==
    \/ 1 <= expectCode /\ expectCode < 10 /\ (code \div 100) # expectCode
    \/ 10 <= expectCode /\ expectCode < 100 /\ (code \div 10) # expectCode
    \/ 100 <= expectCode /\ expectCode < 1000 /\ code # expectCode

parseCodeLine(line, expectCode) ==
    IF Len(line) < 4 \/ (line[4] # " " /\ line[4] # "-")
    THEN [code |-> 0, continued |-> FALSE, msg |-> <<>>,
          err |-> ProtoErr("short response", line)]
    ELSE LET n == Atoi(SubSeq(line, 1, 3))
             continued == line[4] = "-"
         IN  IF ~n.ok \/ n.val < 100
             THEN [code |-> n.val, continued |-> continued, msg |-> <<>>,
                   err |-> ProtoErr("invalid response code", line)]
             ELSE [code |-> n.val, continued |-> continued,
                   msg |-> SubSeq(line, 5, Len(line)),
                   err |-> IF ExpectMismatch(expectCode, n.val)
                           THEN ReplyErr(n.val, SubSeq(line, 5, Len(line)))
                           ELSE NoErr]

(***************************************************************************)
(* pasv and epsv: the port a reply message names.  kind is "ok" (a port,   *)
(* no error), "err" (an error, port 0) or "panic" (an out-of-range index   *)
(* or slice aborts the call).                                              *)
(***************************************************************************)
ParsePanic == [kind |-> "panic", port |-> 0, err |-> NoErr]

pasvPort(line) ==
    LET start == Index(line, <<"(">>)
        end   == LastIndex(line, <<")">>)
    IN  IF start = -1 \/ end = -1
        THEN [kind |-> "err", port |-> 0,
              err |-> TextErr("format", <<>>)]
        ELSE IF ~SliceOK(line, start + 1, end) THEN ParsePanic
        ELSE LET pasvData == Split(Slice(line, start + 1, end), ",")
             IN  IF Len(pasvData) < 5 THEN ParsePanic
                 ELSE LET portPart1 == Atoi(pasvData[5])
                      IN  IF ~portPart1.ok
                          THEN [kind |-> "err", port |-> 0, err |-> TextErr("atoi", pasvData[5])]
                          ELSE IF Len(pasvData) < 6 THEN ParsePanic
                          ELSE LET portPart2 == Atoi(pasvData[6])
                               IN  IF ~portPart2.ok
                                   THEN [kind |-> "err", port |-> 0,
                                         err |-> TextErr("atoi", pasvData[6])]
                                   ELSE [kind |-> "ok",
                                         port |-> portPart1.val * 256 + portPart2.val,
                                         err |-> NoErr]

epsvPort(line) ==
    LET start == Index(line, <<"|", "|", "|">>)
        end   == LastIndex(line, <<"|">>)
    IN  IF start = -1 \/ end = -1
        THEN [kind |-> "err", port |-> 0, err |-> TextErr("format", <<>>)]
        ELSE IF ~SliceOK(line, start + 3, end) THEN ParsePanic
        ELSE LET n == Atoi(Slice(line, start + 3, end))
             IN  IF n.ok THEN [kind |-> "ok", port |-> n.val, err |-> NoErr]
                 ELSE [kind |-> "err", port |-> 0,
                       err |-> TextErr("atoi", Slice(line, start + 3, end))]


(***************************************************************************)
(* The server's replies.  A reply is the sequence of its lines: one line   *)
(* "ccc text", or the multi-line form "ccc-text" ... "ccc text".           *)
(***************************************************************************)
Single(code, text) == <<CodeStr(code) \o <<" ">> \o text>>

Multi(code, first, last) == <<CodeStr(code) \o <<"-">> \o first,
                              CodeStr(code) \o <<" ">> \o last>>

FeatList(code, lines) == <<CodeStr(code) \o <<"-", "F">>>> \o lines
                         \o <<CodeStr(code) \o <<" ", "E">>>>

UTF8 == <<"U", "T", "F", "8">>
EPSV == <<"E", "P", "S", "V">>
nat6 == <<"n", "a", "t", "6">>

Greetings == {Single(220, <<"a">>), Multi(220, <<"a">>, <<"b">>), Single(421, <<"b">>)}

PasvTexts == {<<"(", "1", ",", "2", ",", "3", ",", "4", ",", "0", ",", "9", ")">>,
              <<"(", "1", ",", "2", ",", "3", ",", "4", ",", "0", ",", "0", ")">>,
              <<"(", "1", ",", "2", ")">>,
              <<"e">>}

EpsvTexts == {<<"|", "|", "|", "7", "|">>,
              <<"|", "|", "|", "0", "|">>,
              <<"|", "|", "|">>,
              <<"e">>}

XferVerbs == {"NLST", "LIST", "MLSD", "RETR", "STOR"}

SimpleVerbs == {"NOOP"}

ClosingReplies == {Single(226, <<"a">>), Multi(226, <<"a">>, <<"b">>), Single(426, <<"b">>)}

ServerReplies(verb) ==
    CASE verb = "FEAT" -> {Single(502, <<"a">>),
                           FeatList(211, <<<<" ">> \o EPSV>>),
                           FeatList(211, <<<<" ">> \o UTF8, <<" ">> \o nat6 \o <<" ", "x">>>>)}
      [] verb = "USER" -> {Single(230, <<"a">>), Single(331, <<"a">>),
                           Single(530, <<"b">>), Multi(530, <<"a">>, <<"b">>)}
      [] verb = "PASS" -> {Single(230, <<"a">>), Single(530, <<"b">>)}
      [] verb = "TYPE" -> {Single(200, <<"a">>), Single(504, <<"b">>)}
      [] verb = "PASV" -> {Single(227, t) : t \in PasvTexts} \cup {Single(500, <<"b">>)}
      [] verb = "EPSV" -> {Single(229, t) : t \in EpsvTexts} \cup {Single(500, <<"b">>)}
      [] verb = "REST" -> {Single(350, <<"a">>), Single(501, <<"b">>)}
      [] verb \in XferVerbs -> {Single(150, <<"a">>), Single(125, <<"a">>),
                                Multi(150, <<"a">>, <<"b">>),
                                Single(550, <<"b">>), Multi(550, <<"a">>, <<"b">>)}
      [] OTHER -> {Single(200, <<"a">>), Single(500, <<"b">>)}

\* the server starts a transfer when it answers a transfer command with 1xx
Accepts(verb, reply) == verb \in XferVerbs /\ reply[1][1] = "1"

(***************************************************************************)
(* State.                                                                  *)
(***************************************************************************)
VARIABLES
    pc,        \* position of the caller's thread
    op,        \* the operation in progress: [name, offset]
    nops,      \* operations started on the session
    ctrl,      \* control socket: "none", "open", "closed"
    broken,    \* the control connection has failed: every read and write fails
    ctrlIn,    \* lines the server has sent on the control channel, not yet read
    srvOwes,   \* the server is in a transfer and will send its terminating reply
    host,      \* ServerConn.host
    features,  \* ServerConn.features
    cur,       \* the exchange in progress: [site, verb, expect, how]
    res,       \* what the reply read returned: [code, msg, err, multi]
    conn,      \* the data socket of the operation: "nil", "open", "closed"
    dialed,    \* the address the data socket was last dialed to
    dcErr,     \* the error cmdDataConnFrom returned
    pend,      \* an error held while the closing reply is read
    handle,    \* the response returned by RetrFrom: "none", "open"
    port,      \* openDataConn's port
    ev,        \* what the operation in progress has done so far, in order
    ret,       \* what the last operation returned: [op, err]
    call       \* a function taken on its own: [fn, in, out, done]

vars == <<pc, op, nops, ctrl, broken, ctrlIn, srvOwes, host, features, cur, res,
          conn, dialed, dcErr, pend, handle, port, ev, ret, call>>

NoRes == [code |-> 0, msg |-> <<>>, err |-> NoErr, multi |-> FALSE]

NoCur == [site |-> "", verb |-> "", expect |-> -1, how |-> ""]

NoFeatures == [n \in {} |-> <<>>]

\* addresses given to Connect: "h:21" and "h" (no port)
Addrs == {[host |-> <<"h">>, hasPort |-> TRUE], [host |-> <<"h">>, hasPort |-> FALSE]}

\* the offsets given to RetrFrom and StorFrom
RestOffset == 5

Offsets == {0, RestOffset}

\* no function is being taken on its own
NoCall == [fn |-> "", in |-> <<>>, out |-> <<>>, done |-> FALSE]

\* the session before Connect
NewConn ==
    /\ pc = "start"
    /\ op = [name |-> "Connect", offset |-> 0]
    /\ nops = 0
    /\ ctrl = "none"
    /\ broken = FALSE
    /\ ctrlIn = <<>>
    /\ srvOwes = FALSE
    /\ host = <<>>
    /\ features = NoFeatures
    /\ cur = NoCur
    /\ res = NoRes
    /\ conn = "nil"
    /\ dialed = [host |-> <<>>, port |-> 0]
    /\ dcErr = NoErr
    /\ pend = NoErr
    /\ handle = "none"
    /\ port = 0
    /\ ev = <<>>
    /\ ret = [op |-> "", err |-> NoErr]

Init == NewConn /\ call = NoCall


(***************************************************************************)
(* The control channel: textproto.Conn.Cmd, ReadResponse, ReadCodeLine.    *)
(***************************************************************************)
Exchange(site, verb, expect, how) ==
    [site |-> site, verb |-> verb, expect |-> expect, how |-> how]

Failed == [code |-> 0, msg |-> <<>>, err |-> IOErr, multi |-> FALSE]

Return(e) == /\ pc' = "idle"
             /\ ret' = [op |-> op.name, err |-> e]

\* the control connection fails while the client is writing to it or
\* reading from it
Break ==
    /\ pc \in {"send", "read1", "readN"}
    /\ ctrl = "open"
    /\ ~broken
    /\ broken' = TRUE
    /\ ctrlIn' = <<>>
    /\ srvOwes' = FALSE
    /\ UNCHANGED <<call, pc, op, nops, ctrl, host, features, cur, res, conn, dialed,
                   dcErr, pend, handle, port, ev, ret>>

\* c.conn.Cmd(format, args...): the command goes out and the server answers
Cmd ==
    /\ pc = "send"
    /\ ev' = Append(ev, cur.verb)
    /\ IF broken
       THEN /\ res' = Failed
            /\ pc' = "got"
            /\ UNCHANGED <<ctrlIn, srvOwes>>
       ELSE /\ \E reply \in ServerReplies(cur.verb) :
                 /\ ctrlIn' = ctrlIn \o reply
                 /\ srvOwes' = (srvOwes \/ Accepts(cur.verb, reply))
            /\ pc' = "read1"
            /\ res' = NoRes
    /\ UNCHANGED <<call, op, nops, ctrl, broken, host, features, cur, conn, dialed,
                   dcErr, pend, handle, port, ret>>

\* ReadCodeLine: a reply that continues is an error, and its first line is
\* all that was read
ReadCodeLine(p) ==
    [code |-> p.code, msg |-> p.msg, multi |-> FALSE,
     err |-> IF p.err = NoErr /\ p.continued
             THEN ProtoErr("unexpected multi-line response", p.msg)
             ELSE p.err]

\* the first line of a reply: readCodeLine(expectCode)
ReadFirst ==
    /\ pc = "read1"
    /\ broken \/ ctrlIn # <<>>
    /\ IF broken
       THEN /\ res' = Failed
            /\ pc' = "got"
            /\ UNCHANGED ctrlIn
       ELSE LET p == parseCodeLine(Head(ctrlIn), cur.expect)
            IN  /\ ctrlIn' = Tail(ctrlIn)
                /\ IF cur.how = "codeline"
                   THEN /\ res' = ReadCodeLine(p)
                        /\ pc' = "got"
                   ELSE /\ res' = [code |-> p.code, msg |-> p.msg, err |-> p.err,
                                   multi |-> p.continued]
                        /\ pc' = IF p.continued THEN "readN" ELSE "got"
    /\ UNCHANGED <<call, op, nops, ctrl, broken, srvOwes, host, features, cur, conn,
                   dialed, dcErr, pend, handle, port, ev, ret>>

\* ReadResponse's loop over the lines after the first
ReadMore ==
    /\ pc = "readN"
    /\ broken \/ ctrlIn # <<>>
    /\ IF broken
       THEN /\ res' = Failed
            /\ pc' = "got"
            /\ UNCHANGED ctrlIn
       ELSE LET line == Head(ctrlIn)
                p == parseCodeLine(line, 0)
            IN  /\ ctrlIn' = Tail(ctrlIn)
                /\ IF p.err # NoErr \/ p.code # res.code
                   THEN /\ res' = [res EXCEPT !.msg = @ \o <<"\n">> \o line]
                        /\ pc' = "readN"
                   ELSE LET message == res.msg \o <<"\n">> \o p.msg
                        IN  IF p.continued
                            THEN /\ res' = [res EXCEPT !.msg = message]
                                 /\ pc' = "readN"
                            ELSE /\ res' = [res EXCEPT
                                              !.msg = message,
                                              !.err = IF @ # NoErr /\ message # <<>>
                                                      THEN ReplyErr(res.code, message)
                                                      ELSE @]
                                 /\ pc' = "got"
    /\ UNCHANGED <<call, op, nops, ctrl, broken, srvOwes, host, features, cur, conn,
                   dialed, dcErr, pend, handle, port, ev, ret>>

(***************************************************************************)
(* Connect, feat, Quit.                                                    *)
(***************************************************************************)
\* a feature parser that folds the command names to upper case
RECURSIVE featLinesFolded(_, _)
featLinesFolded(lines, fs) ==
    IF lines = <<>> THEN fs
    ELSE IF ~HasPrefix(lines[1], <<" ">>) THEN featLinesFolded(Tail(lines), fs)
    ELSE LET line == TrimSpace(lines[1])
             sp == Index(line, <<" ">>)
             word == IF sp = -1 THEN line ELSE Slice(line, 0, sp)
             up(ch) == CASE ch = "n" -> "N" [] ch = "a" -> "A" [] ch = "t" -> "T"
                         [] OTHER -> ch
             command == [k \in 1..Len(word) |-> up(word[k])]
             commandDesc == IF sp = -1 THEN <<>> ELSE Slice(line, sp + 1, Len(line))
         IN  featLinesFolded(Tail(lines),
                             [n \in DOMAIN fs \cup {command} |->
                                IF n = command THEN commandDesc ELSE fs[n]])

RECURSIVE featLines(_, _)
featLines(lines, fs) ==
    IF lines = <<>> THEN fs
    ELSE IF ~HasPrefix(lines[1], <<" ">>) THEN featLines(Tail(lines), fs)
    ELSE LET line == TrimSpace(lines[1])
             sp == Index(line, <<" ">>)
             command == IF sp = -1 THEN line ELSE Slice(line, 0, sp)
             commandDesc == IF sp = -1 THEN <<>> ELSE Slice(line, sp + 1, Len(line))
         IN  featLines(Tail(lines),
                       [n \in DOMAIN fs \cup {command} |->
                          IF n = command THEN commandDesc ELSE fs[n]])

\* a Quit that writes QUIT and forgets c.conn.Close()
QuitLeavesOpen ==
    /\ ev' = Append(ev, "QUIT")
    /\ UNCHANGED <<call, ctrl, ctrlIn, srvOwes>>

\* c.Quit(): QUIT is written, no reply is read, the socket is closed
QuitEffect ==
    /\ ev' = Append(ev, "QUIT")
    /\ ctrl' = "closed"
    /\ ctrlIn' = <<>>
    /\ srvOwes' = FALSE

Connect ==
    /\ pc = "start"
    /\ \E addr \in Addrs, up \in BOOLEAN :
         IF ~(addr.hasPort /\ up)
         THEN \* textproto.Dial fails
              /\ pc' = "end"
              /\ ret' = [op |-> "Connect", err |-> IOErr]
              /\ UNCHANGED <<ctrl, host, ctrlIn, cur>>
         ELSE IF ~addr.hasPort
         THEN \* net.SplitHostPort fails
              /\ ctrl' = "closed"
              /\ pc' = "end"
              /\ ret' = [op |-> "Connect", err |-> TextErr("address", addr.host)]
              /\ UNCHANGED <<host, ctrlIn, cur>>
         ELSE /\ ctrl' = "open"
              /\ host' = addr.host
              /\ \E g \in Greetings : ctrlIn' = g
              /\ cur' = Exchange("GREET", "", StatusReady, "response")
              /\ pc' = "read1"
              /\ UNCHANGED ret
    /\ UNCHANGED <<call, op, nops, broken, srvOwes, features, res, conn, dialed, dcErr,
                   pend, handle, port, ev>>

ConnectGreeted ==
    /\ pc = "got"
    /\ cur.site = "GREET"
    /\ IF res.err # NoErr
       THEN /\ QuitEffect
            /\ pc' = "end"
            /\ ret' = [op |-> "Connect", err |-> res.err]
            /\ UNCHANGED cur
       ELSE /\ cur' = Exchange("FEAT", "FEAT", -1, "response")
            /\ pc' = "send"
            /\ UNCHANGED <<ev, ctrl, ctrlIn, srvOwes, ret>>
    /\ UNCHANGED <<call, op, nops, broken, host, features, res, conn, dialed, dcErr,
                   pend, handle, port>>

feat ==
    /\ pc = "got"
    /\ cur.site = "FEAT"
    /\ IF res.err # NoErr
       THEN /\ QuitEffect
            /\ pc' = "end"
            /\ ret' = [op |-> "Connect", err |-> res.err]
            /\ UNCHANGED features
       ELSE /\ features' = IF res.code # StatusSystem THEN features
                           ELSE featLines(Split(res.msg, "\n"), features)
            /\ Return(NoErr)
            /\ UNCHANGED <<ev, ctrl, ctrlIn, srvOwes>>
    /\ UNCHANGED <<call, op, nops, broken, host, cur, res, conn, dialed, dcErr, pend,
                   handle, port>>

\* the caller may start an operation
Idle == pc = "idle" /\ ctrl = "open" /\ handle = "none" /\ nops < MaxOps

Start(name, offset) ==
    /\ op' = [name |-> name, offset |-> offset]
    /\ nops' = nops + 1
    /\ ev' = <<>>
    /\ res' = NoRes
    /\ dcErr' = NoErr
    /\ pend' = NoErr
    /\ conn' = "nil"
    /\ port' = 0

Quit ==
    /\ Idle
    /\ op' = [name |-> "Quit", offset |-> 0]
    /\ nops' = nops + 1
    /\ ev' = <<"QUIT">>
    /\ ctrl' = "closed"
    /\ ctrlIn' = <<>>
    /\ srvOwes' = FALSE
    /\ pc' = "end"
    /\ ret' = [op |-> "Quit", err |-> NoErr]
    /\ UNCHANGED <<call, broken, host, features, cur, res, conn, dialed, dcErr, pend,
                   handle, port>>

(***************************************************************************)
(* Login and the commands that are one exchange.                           *)
(***************************************************************************)
Login ==
    /\ Idle
    /\ Start("Login", 0)
    /\ cur' = Exchange("USER", "USER", -1, "response")
    /\ pc' = "send"
    /\ UNCHANGED <<call, ctrl, broken, ctrlIn, srvOwes, host, features, dialed, handle, ret>>

\* the switch with "logged in" falling into the PASS case
AfterUserOnlyPassword(code) ==
    IF code = StatusUserOK \/ code = StatusLoggedIn THEN "PASS" ELSE "fail"

\* the switch on the code of the reply to USER
AfterUser(code) ==
    IF code = StatusLoggedIn THEN "TYPE"
    ELSE IF code = StatusUserOK THEN "PASS"
    ELSE "fail"

LoginUser ==
    /\ pc = "got"
    /\ cur.site = "USER"
    /\ IF res.err # NoErr
       THEN Return(res.err) /\ UNCHANGED cur
       ELSE IF AfterUser(res.code) = "TYPE"
       THEN /\ cur' = Exchange("TYPE", "TYPE", StatusCommandOK, "response")
            /\ pc' = "send"
            /\ UNCHANGED ret
       ELSE IF AfterUser(res.code) = "PASS"
       THEN /\ cur' = Exchange("PASS", "PASS", StatusLoggedIn, "response")
            /\ pc' = "send"
            /\ UNCHANGED ret
       ELSE Return(TextErr("message", res.msg)) /\ UNCHANGED cur
    /\ UNCHANGED <<call, op, nops, ctrl, broken, ctrlIn, srvOwes, host, features, res,
                   conn, dialed, dcErr, pend, handle, port, ev>>

LoginPass ==
    /\ pc = "got"
    /\ cur.site = "PASS"
    /\ IF res.err # NoErr
       THEN Return(res.err) /\ UNCHANGED cur
       ELSE /\ cur' = Exchange("TYPE", "TYPE", StatusCommandOK, "response")
            /\ pc' = "send"
            /\ UNCHANGED ret
    /\ UNCHANGED <<call, op, nops, ctrl, broken, ctrlIn, srvOwes, host, features, res,
                   conn, dialed, dcErr, pend, handle, port, ev>>

LoginType ==
    /\ pc = "got"
    /\ cur.site = "TYPE"
    /\ Return(res.err)
    /\ UNCHANGED <<call, op, nops, ctrl, broken, ctrlIn, srvOwes, host, features, cur,
                   res, conn, dialed, dcErr, pend, handle, port, ev>>

NoOp ==
    /\ Idle
    /\ Start("NoOp", 0)
    /\ cur' = Exchange("SIMPLE", "NOOP", StatusCommandOK, "response")
    /\ pc' = "send"
    /\ UNCHANGED <<call, ctrl, broken, ctrlIn, srvOwes, host, features, dialed, handle, ret>>

NoOpDone ==
    /\ pc = "got"
    /\ cur.site = "SIMPLE"
    /\ Return(res.err)
    /\ UNCHANGED <<call, op, nops, ctrl, broken, ctrlIn, srvOwes, host, features, cur,
                   res, conn, dialed, dcErr, pend, handle, port, ev>>


(***************************************************************************)
(* openDataConn, pasv, epsv.                                               *)
(***************************************************************************)
ListingOps == {"NameList", "List", "MList"}

TransferVerb(name) ==
    CASE name = "NameList" -> "NLST"
      [] name = "List" -> "LIST"
      [] name = "MList" -> "MLSD"
      [] name = "RetrFrom" -> "RETR"
      [] name = "StorFrom" -> "STOR"

\* the caller starts an operation that needs a data connection
DataOp ==
    /\ Idle
    /\ \E name \in ListingOps \cup {"RetrFrom", "StorFrom"}, offset \in Offsets :
         /\ name \in ListingOps => offset = 0
         /\ Start(name, offset)
    /\ pc' = "openDataConn"
    /\ UNCHANGED <<call, ctrl, broken, ctrlIn, srvOwes, host, features, cur, dialed,
                   handle, ret>>

\* PASV unless the server advertises nat6 or EPSV
PasvFirst(fs) == nat6 \notin DOMAIN fs /\ EPSV \notin DOMAIN fs

openDataConn ==
    /\ pc = "openDataConn"
    /\ cur' = IF PasvFirst(features)
              THEN Exchange("PASV", "PASV", StatusPassiveMode, "response")
              ELSE Exchange("EPSV", "EPSV", StatusExtendedPassiveMode, "response")
    /\ pc' = "send"
    /\ UNCHANGED <<call, op, nops, ctrl, broken, ctrlIn, srvOwes, host, features, res,
                   conn, dialed, dcErr, pend, handle, port, ev, ret>>

\* port, _ = c.pasv(); if port == 0 { port, err = c.epsv() ... }
pasv ==
    /\ pc = "got"
    /\ cur.site = "PASV"
    /\ LET p == IF res.err # NoErr
                THEN [kind |-> "err", port |-> 0, err |-> res.err]
                ELSE pasvPort(res.msg)
       IN  IF p.kind = "panic"
           THEN pc' = "panic" /\ UNCHANGED <<port, cur>>
           ELSE /\ port' = p.port
                /\ IF p.port = 0
                   THEN /\ cur' = Exchange("EPSV", "EPSV", StatusExtendedPassiveMode,
                                           "response")
                        /\ pc' = "send"
                   ELSE pc' = "dial" /\ UNCHANGED cur
    /\ UNCHANGED <<call, op, nops, ctrl, broken, ctrlIn, srvOwes, host, features, res,
                   conn, dialed, dcErr, pend, handle, ev, ret>>

epsv ==
    /\ pc = "got"
    /\ cur.site = "EPSV"
    /\ LET p == IF res.err # NoErr
                THEN [kind |-> "err", port |-> 0, err |-> res.err]
                ELSE epsvPort(res.msg)
       IN  IF p.kind = "panic"
           THEN pc' = "panic" /\ UNCHANGED <<port, dcErr>>
           ELSE IF p.kind = "err"
           THEN \* openDataConn returns the error, and so does cmdDataConnFrom
                /\ dcErr' = p.err
                /\ pc' = "cmdDataConnFrom"
                /\ UNCHANGED port
           ELSE /\ port' = p.port
                /\ pc' = "dial"
                /\ UNCHANGED dcErr
    /\ UNCHANGED <<call, op, nops, ctrl, broken, ctrlIn, srvOwes, host, features, cur,
                   res, conn, dialed, pend, handle, ev, ret>>

\* net.Dial("tcp", net.JoinHostPort(c.host, strconv.Itoa(port))), and
\* cmdDataConnFrom's REST when the offset is not 0
DialTarget == [host |-> host, port |-> port]

\* REST sent whatever the offset
RestAlways(offset) == TRUE

\* if offset != 0
RestWanted(offset) == offset # 0

dial ==
    /\ pc = "dial"
    /\ dialed' = DialTarget
    /\ ev' = Append(ev, "dial")
    /\ \E up \in BOOLEAN :
         IF ~up
         THEN /\ dcErr' = IOErr
              /\ pc' = "cmdDataConnFrom"
              /\ UNCHANGED <<conn, cur>>
         ELSE /\ conn' = "open"
              /\ cur' = IF RestWanted(op.offset)
                        THEN Exchange("REST", "REST", StatusRequestFilePending, "response")
                        ELSE Exchange("XFER", TransferVerb(op.name), -1, "codeline")
              /\ pc' = "send"
              /\ UNCHANGED dcErr
    /\ UNCHANGED <<call, op, nops, ctrl, broken, ctrlIn, srvOwes, host, features, res,
                   pend, handle, port, ret>>

(***************************************************************************)
(* cmdDataConnFrom.                                                        *)
(***************************************************************************)
\* what the server may send when the client closes the data socket
ClosingChoices == IF srvOwes /\ ~broken THEN ClosingReplies ELSE {<<>>}

\* conn.Close() on the data socket
DataClose(reply) ==
    /\ conn' = "closed"
    /\ ev' = Append(ev, "dclose")
    /\ ctrlIn' = ctrlIn \o reply
    /\ srvOwes' = FALSE

\* a failed REST returns the error; the data socket is left as it is
rest ==
    /\ pc = "got"
    /\ cur.site = "REST"
    /\ IF res.err # NoErr
       THEN /\ dcErr' = res.err
            /\ pc' = "cmdDataConnFrom"
            /\ UNCHANGED <<conn, ev, ctrlIn, srvOwes, cur>>
       ELSE /\ cur' = Exchange("XFER", TransferVerb(op.name), -1, "codeline")
            /\ pc' = "send"
            /\ UNCHANGED <<dcErr, conn, ev, ctrlIn, srvOwes>>
    /\ UNCHANGED <<call, op, nops, ctrl, broken, host, features, res, dialed, pend,
                   handle, port, ret>>

\* the reply codes that start the transfer
TransferStarts(code) == code = StatusAlreadyOpen \/ code = StatusAboutToSend

transfer ==
    /\ pc = "got"
    /\ cur.site = "XFER"
    /\ pc' = "cmdDataConnFrom"
    /\ IF res.err # NoErr
       THEN /\ \E reply \in ClosingChoices : DataClose(reply)
            /\ dcErr' = res.err
       ELSE IF ~TransferStarts(res.code)
       THEN /\ \E reply \in ClosingChoices : DataClose(reply)
            /\ dcErr' = ReplyErr(res.code, res.msg)
       ELSE /\ dcErr' = NoErr
            /\ UNCHANGED <<conn, ev, ctrlIn, srvOwes>>
    /\ UNCHANGED <<call, op, nops, ctrl, broken, host, features, cur, res, dialed, pend,
                   handle, port, ret>>

(***************************************************************************)
(* NameList, List, MList; RetrFrom and response.Close; StorFrom.           *)
(***************************************************************************)
\* the listing operations: scan the data stream, then the deferred r.Close()
listing ==
    /\ pc = "cmdDataConnFrom"
    /\ op.name \in ListingOps
    /\ IF dcErr # NoErr
       THEN /\ Return(dcErr)
            /\ UNCHANGED <<conn, ev, ctrlIn, srvOwes, cur, pend>>
       ELSE /\ \E readErr \in {NoErr, IOErr} : pend' = readErr
            /\ \E reply \in ClosingChoices :
                 /\ conn' = "closed"
                 /\ ev' = ev \o <<"scan", "dclose", "rdclose">>
                 /\ ctrlIn' = ctrlIn \o reply
                 /\ srvOwes' = FALSE
            /\ cur' = Exchange("LCLOSE", "", StatusClosingDataConnection, "response")
            /\ pc' = "read1"
            /\ UNCHANGED ret
    /\ UNCHANGED <<call, op, nops, ctrl, broken, host, features, res, dialed, dcErr,
                   handle, port>>

\* the listing operation returns its own error; r.Close()'s is dropped
listingClosed ==
    /\ pc = "got"
    /\ cur.site = "LCLOSE"
    /\ Return(pend)
    /\ UNCHANGED <<call, op, nops, ctrl, broken, ctrlIn, srvOwes, host, features, cur,
                   res, conn, dialed, dcErr, pend, handle, port, ev>>

RetrFrom ==
    /\ pc = "cmdDataConnFrom"
    /\ op.name = "RetrFrom"
    /\ Return(dcErr)
    /\ handle' = IF dcErr = NoErr THEN "open" ELSE "none"
    /\ UNCHANGED <<call, op, nops, ctrl, broken, ctrlIn, srvOwes, host, features, cur,
                   res, conn, dialed, dcErr, pend, port, ev>>

\* response.Close(): err := r.conn.Close(), then ReadResponse
Close ==
    /\ pc = "idle"
    /\ ctrl = "open"
    /\ handle = "open"
    /\ op' = [name |-> "Close", offset |-> 0]
    /\ res' = NoRes
    /\ \E closeErr \in {NoErr, IOErr} : pend' = closeErr
    /\ \E reply \in ClosingChoices :
         /\ conn' = "closed"
         /\ ev' = <<"dclose", "rdclose">>
         /\ ctrlIn' = ctrlIn \o reply
         /\ srvOwes' = FALSE
    /\ cur' = Exchange("RCLOSE", "", StatusClosingDataConnection, "response")
    /\ pc' = "read1"
    /\ UNCHANGED <<call, nops, ctrl, broken, host, features, dialed, dcErr, handle, port,
                   ret>>

\* the socket's close error taking precedence over the reply's
CloseResultSocketFirst(err, err2) == IF err # NoErr THEN err ELSE err2

\* if err2 != nil { err = err2 }; return err
CloseResult(err, err2) == IF err2 # NoErr THEN err2 ELSE err

closed ==
    /\ pc = "got"
    /\ cur.site = "RCLOSE"
    /\ Return(CloseResult(pend, res.err))
    /\ handle' = "none"
    /\ UNCHANGED <<call, op, nops, ctrl, broken, ctrlIn, srvOwes, host, features, cur,
                   res, conn, dialed, dcErr, pend, port, ev>>

\* the closing reply read whatever io.Copy returned
StorReadsAlways(copyErr) == TRUE

\* whether StorFrom reads the closing reply after io.Copy returned copyErr
StorReadsReply(copyErr) == copyErr = NoErr

\* _, err = io.Copy(conn, r); conn.Close(); then the closing reply
StorFrom ==
    /\ pc = "cmdDataConnFrom"
    /\ op.name = "StorFrom"
    /\ IF dcErr # NoErr
       THEN /\ Return(dcErr)
            /\ UNCHANGED <<conn, ev, ctrlIn, srvOwes, cur, pend>>
       ELSE \E copyErr \in {NoErr, IOErr}, reply \in ClosingChoices :
              /\ conn' = "closed"
              /\ ctrlIn' = ctrlIn \o reply
              /\ srvOwes' = FALSE
              /\ pend' = copyErr
              /\ IF StorReadsReply(copyErr)
                 THEN /\ ev' = ev \o <<"copy", "dclose", "rdclose">>
                      /\ cur' = Exchange("SCLOSE", "", StatusClosingDataConnection,
                                         "codeline")
                      /\ pc' = "read1"
                      /\ UNCHANGED ret
                 ELSE /\ ev' = ev \o <<"copy", "dclose">>
                      /\ Return(copyErr)
                      /\ UNCHANGED cur
    /\ UNCHANGED <<call, op, nops, ctrl, broken, host, features, res, dialed, dcErr,
                   handle, port>>

stored ==
    /\ pc = "got"
    /\ cur.site = "SCLOSE"
    /\ Return(res.err)
    /\ UNCHANGED <<call, op, nops, ctrl, broken, ctrlIn, srvOwes, host, features, cur,
                   res, conn, dialed, dcErr, pend, handle, port, ev>>

(***************************************************************************)
(* The specification.                                                      *)
(***************************************************************************)
Next ==
    \/ Break
    \/ Cmd
    \/ ReadFirst
    \/ ReadMore
    \/ Connect
    \/ ConnectGreeted
    \/ feat
    \/ Quit
    \/ Login
    \/ LoginUser
    \/ LoginPass
    \/ LoginType
    \/ NoOp
    \/ NoOpDone
    \/ DataOp
    \/ openDataConn
    \/ pasv
    \/ epsv
    \/ dial
    \/ rest
    \/ transfer
    \/ listing
    \/ listingClosed
    \/ RetrFrom
    \/ Close
    \/ closed
    \/ StorFrom
    \/ stored

Spec == Init /\ [][Next]_vars


(***************************************************************************)
(* Properties.                                                             *)
(***************************************************************************)
Count(s, x) == Cardinality({i \in 1..Len(s) : s[i] = x})

\* the first position of x in s, 0 when x is not in s
Pos(s, x) == IF \E i \in 1..Len(s) : s[i] = x
             THEN CHOOSE i \in 1..Len(s) : s[i] = x /\ \A j \in 1..(i - 1) : s[j] # x
             ELSE 0

In(s, x) == \E i \in 1..Len(s) : s[i] = x

EndsWith(s, t) == Len(t) <= Len(s) /\ SubSeq(s, Len(s) - Len(t) + 1, Len(s)) = t

DataOps == ListingOps \cup {"RetrFrom", "StorFrom"}

Reading == pc \in {"read1", "readN", "got"}

\* a line "ccc-text" announces further lines of the same reply
Continues(line) == Len(line) >= 4 /\ line[4] = "-"

\* C1: every reply read an operation performs (by cmd, after the transfer
\* command, for the closing reply) reads every line of the reply, continuation
\* lines included, so that no command is written while a line of an earlier
\* reply is unread: a read never ends on a line that announces further lines.
C1_RepliesReadToTheirEnd ==
    [][(pc \in {"read1", "readN"} /\ pc' = "got" /\ ~broken)
         => ~Continues(Head(ctrlIn))]_vars

\* C2: an operation whose transfer command was accepted reads the terminating
\* reply after it closed the data socket and before it returns, whatever the
\* outcome of the transfer.
C2_ClosingReplyReadBeforeReturn ==
    (/\ pc = "idle"
     /\ ret.op \in ListingOps \cup {"StorFrom", "Close"}
     /\ dcErr = NoErr
     /\ In(ev, "dclose"))
    => \E i, j \in 1..Len(ev) : i < j /\ ev[i] = "dclose" /\ ev[j] = "rdclose"

\* C3: cmdDataConnFrom writes no REST when the offset is 0; when the offset is
\* not 0 it writes exactly one REST, after the data connection was opened and
\* before the transfer command, and writes the transfer command only after
\* that REST was acknowledged.
C3_RestIffOffset ==
    LET rests == Count(ev, "REST")
    IN  /\ op.offset = 0 => rests = 0
        /\ op.offset # 0 =>
             /\ rests <= 1
             /\ rests = 1 => (Pos(ev, "dial") # 0 /\ Pos(ev, "dial") < Pos(ev, "REST"))
             /\ (conn # "nil" /\ ~(pc = "send" /\ cur.site = "REST")) => rests = 1
             /\ \A v \in XferVerbs :
                  In(ev, v) => (rests = 1 /\ Pos(ev, "REST") < Pos(ev, v))
             /\ (pc = "send" /\ cur.site = "XFER") =>
                  /\ ev[Len(ev)] = "REST"
                  /\ res.err = NoErr
                  /\ res.code = StatusRequestFilePending

C3_Witness ==
    /\ pc = "idle"
    /\ ret.op = "StorFrom"
    /\ ret.err = NoErr
    /\ op.offset # 0
    /\ ev = <<"PASV", "dial", "REST", "STOR", "copy", "dclose", "rdclose">>

\* C4: when cmdDataConnFrom returns an error after its data socket was dialed,
\* the data socket is closed.
C4_ErrorClosesDataSocket ==
    (pc = "cmdDataConnFrom" /\ dcErr # NoErr /\ conn # "nil") => conn = "closed"

\* C5: StorFrom, once the transfer command is accepted, copies, closes the data
\* socket, then reads the closing reply and requires its code; when the copy
\* fails the socket is closed all the same, the copy error is returned and the
\* closing reply is not read: the reply is read iff the copy succeeded.
C5_StorOrder ==
    /\ (Reading /\ cur.site = "SCLOSE") =>
         /\ conn = "closed"
         /\ pend = NoErr
         /\ cur.expect = StatusClosingDataConnection
         /\ EndsWith(ev, <<"copy", "dclose", "rdclose">>)
    /\ (pc = "idle" /\ ret.op = "StorFrom" /\ dcErr = NoErr) =>
         /\ conn = "closed"
         /\ IF pend = NoErr
            THEN /\ EndsWith(ev, <<"copy", "dclose", "rdclose">>)
                 /\ ret.err = res.err
                 /\ res.code # StatusClosingDataConnection => ret.err # NoErr
            ELSE /\ EndsWith(ev, <<"copy", "dclose">>)
                 /\ ~In(ev, "rdclose")
                 /\ ret.err = pend

C5_Witness ==
    /\ pc = "idle"
    /\ ret.op = "StorFrom"
    /\ dcErr = NoErr
    /\ pend # NoErr
    /\ ret.err = pend
    /\ conn = "closed"

\* C6: response.Close closes the data socket, then reads one reply and requires
\* the closing-data-connection code; a failed reply read or another code is the
\* error Close returns, whatever the socket's close returned, and the socket's
\* close error is returned only when the reply read succeeded.
C6_CloseReturnsReplyError ==
    /\ (Reading /\ cur.site = "RCLOSE") =>
         /\ conn = "closed"
         /\ cur.expect = StatusClosingDataConnection
         /\ ev = <<"dclose", "rdclose">>
    /\ (pc = "idle" /\ ret.op = "Close") =>
         /\ ev = <<"dclose", "rdclose">>
         /\ (res.err # NoErr \/ res.code # StatusClosingDataConnection) =>
              (ret.err = res.err /\ ret.err # NoErr)
         /\ res.err = NoErr => ret.err = pend

C6_Witness ==
    /\ pc = "idle"
    /\ ret.op = "Close"
    /\ pend = NoErr
    /\ res.err.kind = "reply"
    /\ ret.err = res.err

\* C7: openDataConn sends PASV first iff the features hold neither nat6 nor
\* EPSV; it sends EPSV iff PASV was not sent or gave no port; it sends each at
\* most once, returns an EPSV failure as the error, and dials only a nonzero
\* port, on the host of the control session.
C7_PassivePolicy ==
    (op.name \in DataOps /\ ev # <<>>) =>
      /\ ev[1] = "PASV" <=> PasvFirst(features)
      /\ Count(ev, "PASV") <= 1
      /\ Count(ev, "EPSV") <= 1
      /\ (ev[Len(ev)] = "PASV" /\ ~Reading /\ port = 0) =>
           (pc = "send" /\ cur.site = "EPSV")
      /\ (pc = "send" /\ cur.site = "EPSV" /\ In(ev, "PASV")) => port = 0
      /\ (pc = "cmdDataConnFrom" /\ ev[Len(ev)] = "EPSV") => dcErr # NoErr
      /\ In(ev, "dial") => (dialed.port # 0 /\ dialed.host = host)

\* C8: Login sends USER; on "logged in" it sends no PASS, on "need password"
\* it sends PASS and requires "logged in", on any other reply it returns the
\* server's message as the error and sends neither PASS nor TYPE; TYPE is sent
\* only after authentication succeeded and Login succeeds only when TYPE was
\* acknowledged with "command OK".
C8_LoginSequence ==
    op.name = "Login" =>
      /\ ev \in {<<>>, <<"USER">>, <<"USER", "PASS">>, <<"USER", "TYPE">>,
                 <<"USER", "PASS", "TYPE">>}
      /\ (pc = "send" /\ cur.site = "PASS") =>
           (res.err = NoErr /\ res.code = StatusUserOK)
      /\ (pc = "send" /\ cur.site = "TYPE") =>
           /\ res.err = NoErr
           /\ res.code = StatusLoggedIn
           /\ cur.expect = StatusCommandOK
      /\ (Reading /\ cur.site = "PASS") => cur.expect = StatusLoggedIn
      /\ (pc = "idle" /\ ev = <<"USER">>) =>
           /\ ret.err # NoErr
           /\ res.err # NoErr => ret.err = res.err
           /\ res.err = NoErr =>
                /\ res.code \notin {StatusLoggedIn, StatusUserOK}
                /\ ret.err = TextErr("message", res.msg)
      /\ (pc = "idle" /\ ev = <<"USER", "PASS">>) =>
           (res.err # NoErr /\ ret.err = res.err)
      /\ (pc = "idle" /\ ret.err = NoErr) =>
           /\ ev[Len(ev)] = "TYPE"
           /\ res.err = NoErr
           /\ res.code = StatusCommandOK

C8_Witness ==
    /\ pc = "idle"
    /\ ret.op = "Login"
    /\ ret.err = NoErr
    /\ ev = <<"USER", "PASS", "TYPE">>

\* C9: Connect returns a session only when the greeting had the "service
\* ready" code and the FEAT exchange did not fail; a FEAT reply with another
\* code than the feature list's is no error and leaves the features empty; when
\* Connect returns an error after the control socket was opened, the socket is
\* closed.
C9_Connect ==
    /\ (pc = "send" /\ cur.site = "FEAT") =>
         (res.err = NoErr /\ res.code = StatusReady)
    /\ (pc = "idle" /\ nops = 0) =>
         /\ ret = [op |-> "Connect", err |-> NoErr]
         /\ ctrl = "open"
         /\ cur.site = "FEAT"
         /\ res.err = NoErr
         /\ res.code # StatusSystem => features = NoFeatures
    /\ (pc = "end" /\ ret.op = "Connect") =>
         /\ ret.err # NoErr
         /\ ctrl # "open"
         /\ ctrl = "none" => cur = NoCur
         /\ cur.site \in {"GREET", "FEAT"} => (res.err # NoErr /\ ctrl = "closed")

C9_Witness ==
    /\ pc = "end"
    /\ ret.op = "Connect"
    /\ cur.site = "FEAT"
    /\ ctrl = "closed"
    /\ ret.err # NoErr

\* C10: cmdDataConnFrom returns the data connection iff the reply to the
\* transfer command has code 125 or 150; for any other code it closes the data
\* connection and returns an error with exactly the code and message received.
C10_TransferReply ==
    (pc = "cmdDataConnFrom" /\ cur.site = "XFER" /\ res.code >= 100) =>
      /\ dcErr = NoErr <=> TransferStarts(res.code)
      /\ ~TransferStarts(res.code) =>
           (conn = "closed" /\ dcErr = ReplyErr(res.code, res.msg))

(***************************************************************************)
(* pasv on its own: the message of a 227 reply is drawn from PasvMessages  *)
(* and pasv's parsing is applied to it.                                    *)
(***************************************************************************)
\* text before the address, the two port numbers, text after the address
PasvLeads == {<<>>, <<"a", " ">>, <<"(", "a", ")", " ">>, <<"(", "a", ",", "b", ")", " ">>}

PasvNums == {<<"0">>, <<"9">>, <<"1", "2">>}

PasvTrails == {<<>>, <<".">>, <<" ", "(", "b", ")">>}

PasvAddr(p1, p2) == <<"1", ",", "2", ",", "3", ",", "4", ",">> \o p1 \o <<",">> \o p2

PasvMessages ==
    {lead \o <<"(">> \o PasvAddr(p1, p2) \o <<")">> \o trail :
        lead \in PasvLeads, p1 \in PasvNums, p2 \in PasvNums, trail \in PasvTrails}
    \cup {PasvAddr(p1, p2) : p1 \in PasvNums, p2 \in PasvNums}
    \cup {<<"(">> \o PasvAddr(p1, <<"7">>) : p1 \in PasvNums}
    \cup {PasvAddr(<<"7">>, p2) \o <<")">> : p2 \in PasvNums}

InitPasv ==
    /\ NewConn
    /\ call \in {[fn |-> "pasv", in |-> m, out |-> <<>>, done |-> FALSE] : m \in PasvMessages}

pasvCall ==
    /\ call.fn = "pasv"
    /\ ~call.done
    /\ call' = [call EXCEPT !.out = pasvPort(call.in), !.done = TRUE]
    /\ UNCHANGED <<pc, op, nops, ctrl, broken, ctrlIn, srvOwes, host, features, cur,
                   res, conn, dialed, dcErr, pend, handle, port, ev, ret>>

SpecPasv == InitPasv /\ [][pasvCall]_vars

\* the ports named by the parenthesized sextets of integers in a message
Sextets(msg) ==
    LET fieldsAt(i, j) == Split(SubSeq(msg, i + 1, j - 1), ",")
        spans == {ij \in (1..Len(msg)) \X (1..Len(msg)) :
                    /\ ij[1] < ij[2]
                    /\ msg[ij[1]] = "("
                    /\ msg[ij[2]] = ")"
                    /\ Len(fieldsAt(ij[1], ij[2])) = 6
                    /\ \A k \in 1..6 : Atoi(fieldsAt(ij[1], ij[2])[k]).ok}
    IN  {Atoi(fieldsAt(ij[1], ij[2])[5]).val * 256 + Atoi(fieldsAt(ij[1], ij[2])[6]).val :
            ij \in spans}

\* C11: for every PASV reply whose message contains a parenthesized sextet
\* (h1,h2,h3,h4,p1,p2) of integers pasv returns the port p1*256+p2 and no
\* error; for every message without "(" or without ")" it returns a format
\* error and no port.
C11_PasvPort ==
    (call.fn = "pasv" /\ call.done) =>
      /\ Sextets(call.in) # {} =>
           (call.out.kind = "ok" /\ call.out.port \in Sextets(call.in))
      /\ (~In(call.in, "(") \/ ~In(call.in, ")")) =>
           (call.out.kind = "err" /\ call.out.err.kind = "format" /\ call.out.port = 0)

(***************************************************************************)
(* epsv on its own: the message of a 229 reply is drawn from EpsvMessages. *)
(***************************************************************************)
EpsvLeads == {<<>>, <<"a", " ">>, <<"a", " ", "(">>}

EpsvNums == {<<"7">>, <<"0">>, <<"6", "5">>}

EpsvTrails == {<<>>, <<")">>, <<")", " ", "|">>}

\* the port with all its delimiters, without the closing one, without the
\* opener, without any, and with an opener of two bars
EpsvBodies(n) == {<<"|", "|", "|">> \o n \o <<"|">>,
                  <<"|", "|", "|">> \o n,
                  n \o <<"|">>,
                  n,
                  <<"|", "|">> \o n \o <<"|">>}

EpsvMessages ==
    {lead \o body \o trail :
        lead \in EpsvLeads,
        body \in UNION {EpsvBodies(n) : n \in EpsvNums},
        trail \in EpsvTrails}

InitEpsv ==
    /\ NewConn
    /\ call \in {[fn |-> "epsv", in |-> m, out |-> <<>>, done |-> FALSE] : m \in EpsvMessages}

epsvCall ==
    /\ call.fn = "epsv"
    /\ ~call.done
    /\ call' = [call EXCEPT !.out = epsvPort(call.in), !.done = TRUE]
    /\ UNCHANGED <<pc, op, nops, ctrl, broken, ctrlIn, srvOwes, host, features, cur,
                   res, conn, dialed, dcErr, pend, handle, port, ev, ret>>

SpecEpsv == InitEpsv /\ [][epsvCall]_vars

\* the integers of the fields |||port| of a message
EpsvFields(msg) ==
    LET spans == {ij \in (0..Len(msg)) \X (0..Len(msg)) :
                    /\ HasAt(msg, <<"|", "|", "|">>, ij[1])
                    /\ ij[1] + 3 < ij[2]
                    /\ msg[ij[2]] = "|"
                    /\ \A k \in (ij[1] + 4)..(ij[2] - 1) : IsDigit(msg[k])}
    IN  {NatVal(SubSeq(msg, ij[1] + 4, ij[2] - 1)) : ij \in spans}

\* the opener "|||" is absent, or no "|" follows it
DelimiterMissing(msg) ==
    LET start == Index(msg, <<"|", "|", "|">>)
    IN  start = -1 \/ \A k \in (start + 4)..Len(msg) : msg[k] # "|"

\* C12: for every EPSV reply whose message contains the field |||port| epsv
\* returns the integer between the opener "|||" and the closing "|"; for
\* every message in which a delimiter is missing (the opener, or the closing
\* "|" after the port) it returns a format error.
C12_EpsvPort ==
    (call.fn = "epsv" /\ call.done) =>
      /\ DelimiterMissing(call.in) =>
           (call.out.kind = "err" /\ call.out.err.kind = "format")
      /\ EpsvFields(call.in) # {} =>
           (call.out.kind = "ok" /\ call.out.port \in EpsvFields(call.in))

(***************************************************************************)
(* The ISO 8859-15 transcoder.  A UTF-8 string is the sequence of its code *)
(* points (what utf8.DecodeRuneInString yields and string([]rune) encodes),*)
(* an ISO 8859-15 string the sequence of its bytes.                        *)
(***************************************************************************)
\* a decoder without the table (ISO 8859-1)
RuneOfLatin1(r) == r

\* the switch of ISO8859_15ToUTF8: the rune for a byte
RuneOf(r) ==
    CASE r = 164 -> 8364    \* 0xA4 -> 0x20AC
      [] r = 166 -> 352     \* 0xA6 -> 0x0160
      [] r = 168 -> 353     \* 0xA8 -> 0x0161
      [] r = 180 -> 381     \* 0xB4 -> 0x017D
      [] r = 184 -> 382     \* 0xB8 -> 0x017E
      [] r = 188 -> 338     \* 0xBC -> 0x0152
      [] r = 189 -> 339     \* 0xBD -> 0x0153
      [] r = 190 -> 376     \* 0xBE -> 0x0178
      [] OTHER -> r

\* the switch of UTF8ToISO8859_15: the byte for a rune; byte(r) keeps the low
\* eight bits
ByteOf(r) ==
    CASE r = 8364 -> 164
      [] r = 352 -> 166
      [] r = 353 -> 168
      [] r = 381 -> 180
      [] r = 382 -> 184
      [] r = 338 -> 188
      [] r = 339 -> 189
      [] r = 376 -> 190
      [] OTHER -> r % 256

ISO8859_15ToUTF8(s) == [i \in 1..Len(s) |-> RuneOf(s[i])]

UTF8ToISO8859_15(c) == [i \in 1..Len(c) |-> ByteOf(c[i])]

\* longest string given to the transcoder
CodecLen == 2

\* every code point of one byte, the eight runes of the table, and two code
\* points beyond both (0x100, 0x20AD)
CodePoints == (0..255) \cup {8364, 352, 353, 381, 382, 338, 339, 376} \cup {256, 8365}

\* "A", the currency sign 0xA4, e-acute 0xE9, the euro sign, S-caron
FewPoints == {65, 164, 233, 8364, 352}

CodecInputs ==
    {<<c>> : c \in CodePoints}
    \cup UNION {[1..n -> FewPoints] : n \in 2..CodecLen}

InitCodec ==
    /\ NewConn
    /\ call \in {[fn |-> "codec", in |-> c, out |-> <<>>, done |-> FALSE] : c \in CodecInputs}

\* UTF-8 to ISO 8859-15 and back
codecCall ==
    /\ call.fn = "codec"
    /\ ~call.done
    /\ call' = [call EXCEPT
                  !.out = [iso  |-> UTF8ToISO8859_15(call.in),
                           utf8 |-> ISO8859_15ToUTF8(UTF8ToISO8859_15(call.in))],
                  !.done = TRUE]
    /\ UNCHANGED <<pc, op, nops, ctrl, broken, ctrlIn, srvOwes, host, features, cur,
                   res, conn, dialed, dcErr, pend, handle, port, ev, ret>>

SpecCodec == InitCodec /\ [][codecCall]_vars

\* the eight positions in which ISO 8859-15 differs from ISO 8859-1, and the
\* eight characters ISO 8859-15 has there
TableBytes == {164, 166, 168, 180, 184, 188, 189, 190}

TableRunes == {8364, 352, 353, 381, 382, 338, 339, 376}

\* the characters of ISO 8859-15, as code points
InCharset(c) == c \in TableRunes \/ (c \in 0..255 /\ c \notin TableBytes)

Ascii == <<" ", "!", "\"", "#", "$", "%", "&", "'", "(", ")", "*", "+", ",", "-", ".", "/",
           "0", "1", "2", "3", "4", "5", "6", "7", "8", "9", ":", ";", "<", "=", ">", "?",
           "@", "A", "B", "C", "D", "E", "F", "G", "H", "I", "J", "K", "L", "M", "N", "O",
           "P", "Q", "R", "S", "T", "U", "V", "W", "X", "Y", "Z", "[", "\\", "]", "^", "_",
           "<60>", "a", "b", "c", "d", "e", "f", "g", "h", "i", "j", "k", "l", "m", "n", "o",
           "p", "q", "r", "s", "t", "u", "v", "w", "x", "y", "z", "{", "|", "}", "~">>

Glyphs == {<<"<00>", 0>>, <<"\t", 9>>, <<"\n", 10>>, <<"\r", 13>>,
           <<"<A4>", 164>>, <<"<A6>", 166>>, <<"<E9>", 233>>,
           <<"<100>", 256>>, <<"<160>", 352>>, <<"<20AC>", 8364>>}

Ord(ch) == IF \E i \in 1..Len(Ascii) : Ascii[i] = ch
           THEN 31 + (CHOOSE i \in 1..Len(Ascii) : Ascii[i] = ch)
           ELSE (CHOOSE g \in Glyphs : g[1] = ch)[2]

Chr(n) == IF n - 31 \in 1..Len(Ascii)
          THEN Ascii[n - 31]
          ELSE (CHOOSE g \in Glyphs : g[2] = n)[1]

Codes(s) == [i \in 1..Len(s) |-> Ord(s[i])]

Chars(u) == [i \in 1..Len(u) |-> Chr(u[i])]

(***************************************************************************)
(* toServerEncoding and fromServerEncoding.  c is the ServerConn: its      *)
(* features, TranslateEncoding and ListDotDirs.                            *)
(***************************************************************************)
\* a transcoding decision that ignores the feature set
TranslateSet(c) == c.TranslateEncoding

\* !utf8Supported && c.TranslateEncoding
Translates(c) == UTF8 \notin DOMAIN c.features /\ c.TranslateEncoding

toServerEncoding(c, s) ==
    IF Translates(c) THEN Chars(UTF8ToISO8859_15(Codes(s))) ELSE s

fromServerEncoding(c, s) ==
    IF Translates(c) THEN Chars(ISO8859_15ToUTF8(Codes(s))) ELSE s

(***************************************************************************)
(* parseMListLine.  An EntryEx is [name, Facts]; the result carries the    *)
(* error beside it.                                                        *)
(***************************************************************************)
\* strings.Trim(s, cutset)
RECURSIVE Trim(_, _)
Trim(s, cutset) ==
    IF s # <<>> /\ s[1] \in cutset THEN Trim(Tail(s), cutset)
    ELSE IF s # <<>> /\ s[Len(s)] \in cutset THEN Trim(SubSeq(s, 1, Len(s) - 1), cutset)
    ELSE s

\* strings.ToLower, on text whose letters are ASCII
ToLower(s) ==
    [i \in 1..Len(s) |-> IF Ord(s[i]) \in Ord("A")..Ord("Z")
                         THEN Chr(Ord(s[i]) + (Ord("a") - Ord("A")))
                         ELSE s[i]]

\* e.Facts after the fact items, first to last
RECURSIVE setFacts(_, _)
setFacts(items, Facts) ==
    IF items = <<>> THEN Facts
    ELSE LET factKV == Split(Head(items), "=")
             key    == ToLower(factKV[1])
         IN  setFacts(Tail(items),
                      IF Len(factKV) = 2
                      THEN [k \in DOMAIN Facts \cup {key} |->
                               IF k = key THEN factKV[2] ELSE Facts[k]]
                      ELSE Facts)

parseMListLine(c, line) ==
    LET fields == Split(Trim(line, {" ", "\r", "\n", "\t"}), ";")
        item   == fields[Len(fields)]
        Facts  == setFacts(SubSeq(fields, 1, Len(fields) - 1), [k \in {} |-> <<>>])
    IN  IF HasPrefix(item, <<" ">>)
        THEN [name |-> fromServerEncoding(c, Tail(item)), Facts |-> Facts, err |-> NoErr]
        ELSE [name |-> <<>>, Facts |-> Facts, err |-> TextErr("invalid filename", item)]

(***************************************************************************)
(* MList's loop over the data stream.  The stream is the text the server   *)
(* writes on the data connection; bio.ReadString('\n') takes it line by    *)
(* line.                                                                   *)
(***************************************************************************)
\* most lines a data stream holds before its last, unterminated piece
StreamLines == 2

\* the streams of at most n lines of `lines`, each ended by `eol`, followed by
\* one of `tails`
RECURSIVE Streams(_, _, _, _)
Streams(lines, eol, tails, n) ==
    IF n = 0 THEN tails
    ELSE tails \cup {l \o eol \o st : l \in lines, st \in Streams(lines, eol, tails, n - 1)}

CRLF == <<"\r", "\n">>

MListData == {<<"t", "y", "p", "e", "=", "d", "i", "r", ";", " ", ".">>,
              <<"t", "y", "p", "e", "=", "d", "i", "r", ";", " ", ".", ".">>,
              <<"t", "y", "p", "e", "=", "f", "i", "l", "e", ";", " ", "a">>,
              <<"t", "y", "p", "e", "=", "f", "i", "l", "e", ";", "a">>}

MListStreams ==
    Streams(MListData, CRLF, {<<>>, <<"t", "y", "p", "e", "=", "d", "i", "r", ";", " ", ".">>},
            StreamLines)

\* the ServerConn values the parsers are given
Conns(featureSets) ==
    [features : featureSets, TranslateEncoding : BOOLEAN, ListDotDirs : BOOLEAN]

InitMList ==
    /\ NewConn
    /\ call \in {[fn |-> "MList", in |-> [c |-> c, stream |-> st], rest |-> st,
                  out |-> <<>>, err |-> NoErr, done |-> FALSE] :
                    c \in Conns({NoFeatures}), st \in MListStreams}

\* an entry is kept whatever its name
ListsEntryAnyName(c, entry) == entry.err = NoErr

\* the condition under which MList appends an entry
ListsEntry(c, entry) ==
    /\ entry.err = NoErr
    /\ (entry.name # <<".">> /\ entry.name # <<".", ".">>) \/ c.ListDotDirs

\* ReadString returned a line with its "\n": parse it and keep or drop it
mlistLine ==
    /\ call.fn = "MList"
    /\ ~call.done
    /\ In(call.rest, "\n")
    /\ LET n     == Pos(call.rest, "\n")
           entry == parseMListLine(call.in.c, SubSeq(call.rest, 1, n))
       IN  call' = [call EXCEPT
                      !.rest = SubSeq(call.rest, n + 1, Len(call.rest)),
                      !.out  = IF ListsEntry(call.in.c, entry)
                               THEN Append(call.out, [name |-> entry.name, Facts |-> entry.Facts])
                               ELSE call.out]
    /\ UNCHANGED <<pc, op, nops, ctrl, broken, ctrlIn, srvOwes, host, features, cur,
                   res, conn, dialed, dcErr, pend, handle, port, ev, ret>>

\* ReadString returned io.EOF (with what was left of the stream): break
mlistEOF ==
    /\ call.fn = "MList"
    /\ ~call.done
    /\ ~In(call.rest, "\n")
    /\ call' = [call EXCEPT !.rest = <<>>, !.done = TRUE]
    /\ UNCHANGED <<pc, op, nops, ctrl, broken, ctrlIn, srvOwes, host, features, cur,
                   res, conn, dialed, dcErr, pend, handle, port, ev, ret>>

\* ReadString returned another error: return nil, e
mlistReadFails ==
    /\ call.fn = "MList"
    /\ ~call.done
    /\ call' = [call EXCEPT !.out = <<>>, !.err = IOErr, !.done = TRUE]
    /\ UNCHANGED <<pc, op, nops, ctrl, broken, ctrlIn, srvOwes, host, features, cur,
                   res, conn, dialed, dcErr, pend, handle, port, ev, ret>>

NextMList == mlistLine \/ mlistEOF \/ mlistReadFails

SpecMList == InitMList /\ [][NextMList]_vars

\* the lines of a stream that end in "\n", each with its "\n"
RECURSIVE CompleteLines(_)
CompleteLines(st) ==
    IF ~In(st, "\n") THEN <<>>
    ELSE <<SubSeq(st, 1, Pos(st, "\n"))>>
         \o CompleteLines(SubSeq(st, Pos(st, "\n") + 1, Len(st)))

DotNames == {<<".">>, <<".", ".">>}

\* C13: MList returns no entry named "." or ".." when ListDotDirs is false;
\* it returns every successfully parsed entry, "." and ".." included, when
\* ListDotDirs is true; entries of any other name are returned whatever the
\* flag: the entries are the successful parses of the stream's lines, in
\* order, without the dot entries unless the flag is set.
C13_DotEntries ==
    (call.fn = "MList" /\ call.done /\ call.err = NoErr) =>
      LET c      == call.in.c
          lines  == CompleteLines(call.in.stream)
          parsed == [i \in 1..Len(lines) |-> parseMListLine(c, lines[i])]
          Wanted(e) == e.err = NoErr /\ (c.ListDotDirs \/ e.name \notin DotNames)
          wanted == SelectSeq(parsed, Wanted)
      IN  /\ ~c.ListDotDirs => \A i \in 1..Len(call.out) : call.out[i].name \notin DotNames
          /\ call.out = [i \in 1..Len(wanted) |->
                           [name |-> wanted[i].name, Facts |-> wanted[i].Facts]]

\* a listing of ".." and "a" was returned without ".."
C13_Witness ==
    /\ call.fn = "MList"
    /\ call.done
    /\ call.err = NoErr
    /\ Len(CompleteLines(call.in.stream)) = 2
    /\ ~call.in.c.ListDotDirs
    /\ Len(call.out) = 1
    /\ call.out[1].name = <<"a">>
    /\ \E i \in 1..2 :
         parseMListLine(call.in.c, CompleteLines(call.in.stream)[i]).name = <<".", ".">>

(***************************************************************************)
(* parseListLine.  A time is [year, month, day, hour, minute] in the local *)
(* zone; `now` is what time.Now().Date() returns, [year, month].  The      *)
(* result is kind "ok" with the Entry, "err" (nil entry and an error) or   *)
(* "panic" (a slice out of range aborts the call).                         *)
(***************************************************************************)
WhiteSpace == {" ", "\t", "\n", "\r"}

\* strings.Fields: the maximal runs of characters that are not white space
RECURSIVE Fields(_)
Fields(s) ==
    IF s = <<>> THEN <<>>
    ELSE IF s[1] \in WhiteSpace THEN Fields(Tail(s))
    ELSE LET n == IF \E i \in 1..Len(s) : s[i] \in WhiteSpace
                  THEN (CHOOSE i \in 1..Len(s) :
                           s[i] \in WhiteSpace /\ \A j \in 1..(i - 1) : s[j] \notin WhiteSpace) - 1
                  ELSE Len(s)
         IN  <<SubSeq(s, 1, n)>> \o Fields(SubSeq(s, n + 1, Len(s)))

\* strings.Join(elems, " ")
RECURSIVE JoinSpace(_)
JoinSpace(elems) ==
    IF elems = <<>> THEN <<>>
    ELSE IF Len(elems) = 1 THEN elems[1]
    ELSE elems[1] \o <<" ">> \o JoinSpace(Tail(elems))

\* strconv.ParseUint(s, 10, 0): decimal digits only (the sizes given to the
\* model stay below the range limit)
ParseUint(s) ==
    IF s = <<>> \/ \E i \in 1..Len(s) : ~IsDigit(s[i])
    THEN [ok |-> FALSE, val |-> 0]
    ELSE [ok |-> TRUE, val |-> NatVal(s)]

\* strconv.Itoa of a number that is not negative
RECURSIVE Itoa(_)
Itoa(n) == IF n < 10 THEN <<DigitChars[n + 1]>>
           ELSE Itoa(n \div 10) \o <<DigitChars[(n % 10) + 1]>>

\* package time: the short month names, matched ignoring case
shortMonthNames == <<<<"j", "a", "n">>, <<"f", "e", "b">>, <<"m", "a", "r">>,
                     <<"a", "p", "r">>, <<"m", "a", "y">>, <<"j", "u", "n">>,
                     <<"j", "u", "l">>, <<"a", "u", "g">>, <<"s", "e", "p">>,
                     <<"o", "c", "t">>, <<"n", "o", "v">>, <<"d", "e", "c">>>>

\* the month a text names, 0 when it is not a short month name
lookup(val) ==
    IF \E m \in 1..12 : shortMonthNames[m] = ToLower(val)
    THEN CHOOSE m \in 1..12 : shortMonthNames[m] = ToLower(val)
    ELSE 0

isLeap(year) == year % 4 = 0 /\ (year % 100 # 0 \/ year % 400 = 0)

daysIn(month, year) ==
    IF month = 2 THEN (IF isLeap(year) THEN 29 ELSE 28)
    ELSE IF month \in {4, 6, 9, 11} THEN 30 ELSE 31

\* the layout element "06": a two-digit year is 19yy from 69 on, 20yy below
yearOf06(yy) == IF yy >= 69 THEN 1900 + yy ELSE 2000 + yy

\* one or two digits (layout elements "_2" and "15" followed by a literal)
num12(s) == IF Len(s) \in {1, 2} /\ \A i \in 1..Len(s) : IsDigit(s[i])
            THEN [ok |-> TRUE, val |-> NatVal(s)]
            ELSE [ok |-> FALSE, val |-> 0]

\* exactly two digits (layout elements "06" and "04")
num2(s) == IF Len(s) = 2 /\ IsDigit(s[1]) /\ IsDigit(s[2])
           THEN [ok |-> TRUE, val |-> NatVal(s)]
           ELSE [ok |-> FALSE, val |-> 0]

NoTime == [year |-> 0, month |-> 0, day |-> 0, hour |-> 0, minute |-> 0]

\* time.ParseInLocation("_2 Jan 06 15:04", day+" "+mon+" "+yy+" "+clock, loc)
\* for texts without white space
ParseInLocation(day, mon, yy, clock) ==
    LET d     == num12(day)
        month == lookup(mon)
        y     == num2(yy)
        colon == Index(clock, <<":">>)
        h     == IF colon = -1 THEN [ok |-> FALSE, val |-> 0]
                 ELSE num12(Slice(clock, 0, colon))
        mi    == IF colon = -1 THEN [ok |-> FALSE, val |-> 0]
                 ELSE num2(Slice(clock, colon + 1, Len(clock)))
        year  == yearOf06(y.val)
    IN  IF /\ d.ok /\ Len(mon) = 3 /\ month # 0 /\ y.ok /\ h.ok /\ mi.ok
           /\ h.val < 24 /\ mi.val < 60
           /\ 1 <= d.val /\ d.val <= daysIn(month, year)
        THEN [ok |-> TRUE,
              t  |-> [year |-> year, month |-> month, day |-> d.val,
                      hour |-> h.val, minute |-> mi.val]]
        ELSE [ok |-> FALSE, t |-> NoTime]

NoEntry == [Name |-> <<>>, Type |-> "", Size |-> 0, Time |-> NoTime]

ListErr(what) == [kind |-> "err", e |-> NoEntry, err |-> TextErr(what, <<>>)]

ListPanic == [kind |-> "panic", e |-> NoEntry, err |-> NoErr]

parseListLine(c, now, line) ==
    LET fields == Fields(line)
    IN  IF Len(fields) < 9 THEN ListErr("unsupported LIST line")
        ELSE IF fields[1][1] \notin {"-", "d", "l"} THEN ListErr("unknown entry type")
        ELSE
        LET Type    == CASE fields[1][1] = "-" -> "file"
                         [] fields[1][1] = "d" -> "folder"
                         [] fields[1][1] = "l" -> "link"
            size    == ParseUint(fields[5])
            dateMon == lookup(fields[6])
            setYear == IF dateMon > now.month THEN now.year - 1 ELSE now.year
            hasTime == In(fields[8], ":")
            digits  == IF hasTime THEN Itoa(setYear) ELSE fields[8]
            t       == ParseInLocation(fields[7], fields[6], Slice(digits, 2, 4),
                                       IF hasTime THEN fields[8]
                                       ELSE <<"0", "0", ":", "0", "0">>)
        IN  IF Type = "file" /\ ~size.ok THEN ListErr("parse uint")
            ELSE IF Len(fields[6]) # 3 \/ dateMon = 0 THEN ListErr("parse month")
            ELSE IF ~SliceOK(digits, 2, 4) THEN ListPanic
            ELSE IF ~t.ok THEN ListErr("parse time")
            ELSE [kind |-> "ok",
                  e    |-> [Name |-> fromServerEncoding(c, JoinSpace(SubSeq(fields, 9, Len(fields)))),
                            Type |-> Type,
                            Size |-> IF Type = "file" THEN size.val ELSE 0,
                            Time |-> t.t],
                  err  |-> NoErr]

(***************************************************************************)
(* parseListLine on its own: a line of a file, its month, day and field 7  *)
(* drawn, parsed at a current date that is drawn as well.                  *)
(***************************************************************************)
\* the years of the current date: today's, and the two around the end of the
\* window of two-digit years
NowYears == {2026, 2068, 2069}

\* "Jan" .. "Dec"
MonthText(m) == <<Chr(Ord(shortMonthNames[m][1]) - (Ord("a") - Ord("A"))),
                  shortMonthNames[m][2], shortMonthNames[m][3]>>

DayTexts == {<<"5">>, <<"2", "9">>}

ClockTexts == {<<"1", "0", ":", "3", "0">>}

YearTexts == {<<"1", "9", "6", "8">>, <<"1", "9", "6", "9">>, <<"1", "9", "9", "9">>,
              <<"2", "0", "2", "4">>, <<"2", "0", "6", "8">>, <<"2", "0", "6", "9">>}

\* "-rw- 1 u g 42 <month> <day> <field 7> a"
ListLine(mon, day, f7) ==
    <<"-", "r", "w", "-", " ", "1", " ", "u", " ", "g", " ", "4", "2", " ">>
    \o mon \o <<" ">> \o day \o <<" ">> \o f7 \o <<" ", "a">>

PlainConn == [features |-> NoFeatures, TranslateEncoding |-> FALSE, ListDotDirs |-> FALSE]

InitListLine ==
    /\ NewConn
    /\ call \in {[fn |-> "parseListLine",
                  in |-> [c |-> PlainConn, now |-> [year |-> y, month |-> cm],
                          mon |-> m, day |-> d, f7 |-> f7,
                          line |-> ListLine(MonthText(m), d, f7)],
                  out |-> <<>>, done |-> FALSE] :
                    y \in NowYears, cm \in 1..12, m \in 1..12, d \in DayTexts,
                    f7 \in ClockTexts \cup YearTexts}

parseListLineCall ==
    /\ call.fn = "parseListLine"
    /\ ~call.done
    /\ call' = [call EXCEPT !.out = parseListLine(call.in.c, call.in.now, call.in.line),
                            !.done = TRUE]
    /\ UNCHANGED <<pc, op, nops, ctrl, broken, ctrlIn, srvOwes, host, features, cur,
                   res, conn, dialed, dcErr, pend, handle, port, ev, ret>>

SpecListLine == InitListLine /\ [][parseListLineCall]_vars

\* C14: for a line whose field 7 is an HH:MM time, the year of the timestamp
\* is the current year when the listed month is not later than the current
\* month, and the current year minus one when it is later, for every pair of
\* current month and listed month.
C14_YearOfClockLine ==
    (/\ call.fn = "parseListLine"
     /\ call.done
     /\ In(call.in.f7, ":")
     /\ call.out.kind = "ok")
    => call.out.e.Time.year = (IF call.in.mon > call.in.now.month
                               THEN call.in.now.year - 1
                               ELSE call.in.now.year)

\* C15: for a line whose field 7 has no ":", field 7 is a 4-digit year Y and
\* the timestamp is year Y, the listed month and day, 00:00, for every
\* 4-digit Y.
C15_YearOfYearLine ==
    (/\ call.fn = "parseListLine"
     /\ call.done
     /\ ~In(call.in.f7, ":")
     /\ Len(call.in.f7) = 4
     /\ call.out.kind = "ok")
    => call.out.e.Time = [year |-> NatVal(call.in.f7), month |-> call.in.mon,
                          day |-> NatVal(call.in.day), hour |-> 0, minute |-> 0]

(***************************************************************************)
(* parseMListLine on its own: a line "fact;...;fact;" + separator +        *)
(* filename + line end, its parts drawn.                                   *)
(***************************************************************************)
\* most facts of a line
MaxFacts == 2

\* well-formed facts, one with a key in upper case, and fields without "="
\* and with two
FactTexts == {<<"t", "y", "p", "e", "=", "f", "i", "l", "e">>,
              <<"S", "i", "z", "e", "=", "4">>,
              <<"t", "y", "p", "e", "=", "d", "i", "r">>,
              <<"x">>,
              <<"a", "=", "b", "=", "c">>}

FileNames == {<<"a">>, <<"a", " ", "b">>, <<"a", ";", "b">>, <<"a", ";", " ", "b">>,
              <<"a", " ">>, <<"<A4>">>}

\* "fact1;fact2;"
RECURSIVE FactPart(_)
FactPart(facts) == IF facts = <<>> THEN <<>>
                   ELSE Head(facts) \o <<";">> \o FactPart(Tail(facts))

InitMListLine ==
    /\ NewConn
    /\ call \in {[fn |-> "parseMListLine",
                  in |-> [c |-> [PlainConn EXCEPT !.TranslateEncoding = tr],
                          facts |-> fs, sep |-> sep, filename |-> name,
                          line |-> FactPart(fs) \o sep \o name \o eol],
                  out |-> <<>>, done |-> FALSE] :
                    tr \in BOOLEAN,
                    fs \in UNION {[1..n -> FactTexts] : n \in 1..MaxFacts},
                    sep \in {<<" ">>, <<>>},
                    name \in FileNames,
                    eol \in {CRLF, <<>>}}

parseMListLineCall ==
    /\ call.fn = "parseMListLine"
    /\ ~call.done
    /\ call' = [call EXCEPT !.out = parseMListLine(call.in.c, call.in.line), !.done = TRUE]
    /\ UNCHANGED <<pc, op, nops, ctrl, broken, ctrlIn, srvOwes, host, features, cur,
                   res, conn, dialed, dcErr, pend, handle, port, ev, ret>>

SpecMListLine == InitMListLine /\ [][parseMListLineCall]_vars

\* the fields of the trimmed line
MListFields(line) == Split(Trim(line, {" ", "\r", "\n", "\t"}), ";")

\* every field but the last holds a fact iff it has exactly one "="; the
\* facts are stored under their lowercased keys, a later one over an earlier
MListFactsRule(line, out) ==
    LET fields  == MListFields(line)
        isFact(i) == Count(fields[i], "=") = 1
        key(i)  == ToLower(SubSeq(fields[i], 1, Pos(fields[i], "=") - 1))
        val(i)  == SubSeq(fields[i], Pos(fields[i], "=") + 1, Len(fields[i]))
        facts   == {i \in 1..(Len(fields) - 1) : isFact(i)}
    IN  /\ DOMAIN out.Facts = {key(i) : i \in facts}
        /\ \A i \in facts :
             (\A j \in facts : j > i => key(j) # key(i)) => out.Facts[key(i)] = val(i)

\* the last field begins with a space and the name is the rest of it,
\* transcoded; or it does not and the result is a format error
MListNameRule(c, line, out) ==
    LET fields == MListFields(line)
        last   == fields[Len(fields)]
    IN  IF last # <<>> /\ last[1] = " "
        THEN out.err = NoErr /\ out.name = fromServerEncoding(c, Tail(last))
        ELSE out.err.kind = "invalid filename"

\* C16: parseMListLine trims the line and splits it on ";"; every field but
\* the last is stored as a fact under its lowercased key when it has exactly
\* one "=" and dropped otherwise; the last field must begin with a space and
\* the rest of it, transcoded, is the name, else the result is a format
\* error; and for a line of the form "fact1=val1;...; filename" the name
\* returned is filename.
C16_MListLine ==
    (call.fn = "parseMListLine" /\ call.done) =>
      /\ MListFactsRule(call.in.line, call.out)
      /\ MListNameRule(call.in.c, call.in.line, call.out)
      /\ call.in.sep = <<" ">> =>
           /\ call.out.err = NoErr
           /\ call.out.name = fromServerEncoding(call.in.c, call.in.filename)

(***************************************************************************)
(* List's loop over the data stream.                                       *)
(***************************************************************************)
\* a file, a directory with a year, a line of fewer than nine fields, a line
\* of unknown type, and a line whose field 7 is a two-digit year
ListData == {ListLine(<<"N", "o", "v">>, <<"5">>, <<"1", "0", ":", "3", "0">>),
             <<"d", "r", " ", "1", " ", "u", " ", "g", " ", "0", " ", "N", "o", "v", " ",
               "5", " ", "2", "0", "2", "4", " ", "b">>,
             <<"t", "o", "t", "a", "l", " ", "8">>,
             <<"?", "r", " ", "1", " ", "u", " ", "g", " ", "4", " ", "N", "o", "v", " ",
               "5", " ", "2", "0", "2", "4", " ", "c">>,
             ListLine(<<"N", "o", "v">>, <<"5">>, <<"9", "9">>)}

ListStreams ==
    Streams(ListData, CRLF,
            {<<>>, ListLine(<<"N", "o", "v">>, <<"5">>, <<"1", "0", ":", "3", "0">>)},
            StreamLines)

\* the current date of the listing specifications
Today == [year |-> 2026, month |-> 11]

InitList ==
    /\ NewConn
    /\ call \in {[fn |-> "List", in |-> [c |-> c, now |-> Today, stream |-> st], rest |-> st,
                  out |-> <<>>, err |-> NoErr, done |-> FALSE] :
                    c \in Conns({NoFeatures}), st \in ListStreams}

\* the call was aborted by a panic
Panic == [kind |-> "panic", code |-> 0, msg |-> <<>>]

\* ReadString returned a line with its "\n": parse it, keep the entry or drop
\* the line
listLine ==
    /\ call.fn = "List"
    /\ ~call.done
    /\ In(call.rest, "\n")
    /\ LET n     == Pos(call.rest, "\n")
           entry == parseListLine(call.in.c, call.in.now, SubSeq(call.rest, 1, n))
       IN  call' = IF entry.kind = "panic"
                   THEN [call EXCEPT !.err = Panic, !.done = TRUE]
                   ELSE [call EXCEPT
                           !.rest = SubSeq(call.rest, n + 1, Len(call.rest)),
                           !.out  = IF entry.err = NoErr THEN Append(call.out, entry.e)
                                    ELSE call.out]
    /\ UNCHANGED <<pc, op, nops, ctrl, broken, ctrlIn, srvOwes, host, features, cur,
                   res, conn, dialed, dcErr, pend, handle, port, ev, ret>>

\* ReadString returned io.EOF (with what was left of the stream): break
listEOF ==
    /\ call.fn = "List"
    /\ ~call.done
    /\ ~In(call.rest, "\n")
    /\ call' = [call EXCEPT !.rest = <<>>, !.done = TRUE]
    /\ UNCHANGED <<pc, op, nops, ctrl, broken, ctrlIn, srvOwes, host, features, cur,
                   res, conn, dialed, dcErr, pend, handle, port, ev, ret>>

\* ReadString returned another error: return nil, e
listReadFails ==
    /\ call.fn = "List"
    /\ ~call.done
    /\ call' = [call EXCEPT !.out = <<>>, !.err = IOErr, !.done = TRUE]
    /\ UNCHANGED <<pc, op, nops, ctrl, broken, ctrlIn, srvOwes, host, features, cur,
                   res, conn, dialed, dcErr, pend, handle, port, ev, ret>>

NextList == listLine \/ listEOF \/ listReadFails

SpecList == InitList /\ [][NextList]_vars

\* the lines of a stream, the last one whether or not it ends in "\n"
AllLines(st) ==
    LET pieces == Split(st, "\n")
    IN  IF pieces[Len(pieces)] = <<>> THEN SubSeq(pieces, 1, Len(pieces) - 1) ELSE pieces

\* C19: List drops each line parseListLine rejects and goes on: when the data
\* stream was read to its end the entries are the parse results of the lines
\* parseListLine accepts, in stream order, for every line up to the end of
\* the stream, a last line without newline included; no line makes List fail
\* or stop early.
C19_ListEntries ==
    (call.fn = "List" /\ call.done /\ call.err # IOErr) =>
      LET lines    == AllLines(call.in.stream)
          parsed   == [i \in 1..Len(lines) |->
                         parseListLine(call.in.c, call.in.now, lines[i])]
          Accepted(r) == r.kind = "ok"
          accepted == SelectSeq(parsed, Accepted)
      IN  /\ call.err = NoErr
          /\ call.out = [i \in 1..Len(accepted) |-> accepted[i].e]

(***************************************************************************)
(* The text the operations send and return.  Each operation that carries a *)
(* path is one step from the call to its return (a listing: to the start   *)
(* of its loop); the reply to each command, and whether the data           *)
(* connection came about, are drawn.  call.sent holds the commands written *)
(* with their arguments, call.out the names returned.                      *)
(***************************************************************************)
StatusRequestedFileActionOK == 250
StatusPathCreated == 257

sessionVars == <<pc, op, nops, ctrl, broken, ctrlIn, srvOwes, host, features, cur,
                 res, conn, dialed, dcErr, pend, handle, port, ev, ret>>

\* paths given by the caller (UTF-8) and names sent by the server (bytes)
Paths == {<<"a">>, <<"<20AC>", "<E9>">>}

RawNames == {<<"a">>, <<"<A4>", "<E9>">>, <<".">>}

\* most lines of the data stream of a listing operation
EncodingLines == 1

FeatureSets == {NoFeatures, [n \in {UTF8} |-> <<>>], [n \in {EPSV} |-> <<>>]}

InitEncoding ==
    /\ NewConn
    /\ call \in {[fn |-> "", in |-> [c |-> c], sent |-> <<>>, out |-> <<>>,
                  err |-> NoErr, done |-> FALSE] : c \in Conns(FeatureSets)}

Sent(verb, arg) == [verb |-> verb, arg |-> arg]

\* what cmd returns for a reply of this code
CmdErr(expected, code) ==
    IF ExpectMismatch(expected, code) THEN ReplyErr(code, <<"b">>) ELSE NoErr

\* path = c.toServerEncoding(path); _, _, err := c.cmd(expected, verb+" %s", path)
PathCmd(name, verb, expected) ==
    /\ call.fn = ""
    /\ \E path \in Paths, code \in {expected, 550} :
         call' = [call EXCEPT !.fn = name,
                              !.in = [c |-> call.in.c, path |-> path],
                              !.sent = <<Sent(verb, toServerEncoding(call.in.c, path))>>,
                              !.err = CmdErr(expected, code),
                              !.done = TRUE]
    /\ UNCHANGED sessionVars

ChangeDir == PathCmd("ChangeDir", "CWD", StatusRequestedFileActionOK)

Delete == PathCmd("Delete", "DELE", StatusRequestedFileActionOK)

MakeDir == PathCmd("MakeDir", "MKD", StatusPathCreated)

RemoveDir == PathCmd("RemoveDir", "RMD", StatusRequestedFileActionOK)

Rename ==
    /\ call.fn = ""
    /\ \E from \in Paths, to \in Paths,
          code1 \in {StatusRequestFilePending, 550},
          code2 \in {StatusRequestedFileActionOK, 553} :
         LET c    == call.in.c
             rnfr == Sent("RNFR", toServerEncoding(c, from))
             rnto == Sent("RNTO", toServerEncoding(c, to))
             err1 == CmdErr(StatusRequestFilePending, code1)
         IN  call' = [call EXCEPT
                        !.fn = "Rename",
                        !.in = [c |-> c, path |-> from, to |-> to],
                        !.sent = IF err1 # NoErr THEN <<rnfr>> ELSE <<rnfr, rnto>>,
                        !.err = IF err1 # NoErr THEN err1
                                ELSE CmdErr(StatusRequestedFileActionOK, code2),
                        !.done = TRUE]
    /\ UNCHANGED sessionVars

\* messages of the reply to PWD: the path in quotes, no quotes, one quote
PwdMessages == {<<"\"">> \o n \o <<"\"", " ", "x">> : n \in RawNames}
               \cup {<<"x">>, <<"\"", "x">>}

CurrentDir ==
    /\ call.fn = ""
    /\ \E code \in {StatusPathCreated, 550}, msg \in PwdMessages :
         LET c     == call.in.c
             err   == CmdErr(StatusPathCreated, code)
             start == Index(msg, <<"\"">>)
             end   == LastIndex(msg, <<"\"">>)
         IN  call' = [call EXCEPT
                        !.fn = "CurrentDir",
                        !.in = [c |-> c, msg |-> msg],
                        !.sent = <<Sent("PWD", <<>>)>>,
                        !.out = IF err = NoErr /\ start # -1 /\ SliceOK(msg, start + 1, end)
                                THEN <<fromServerEncoding(c, Slice(msg, start + 1, end))>>
                                ELSE <<>>,
                        !.err = IF err # NoErr THEN err
                                ELSE IF start = -1 \/ end = -1
                                THEN TextErr("format", msg)
                                ELSE IF ~SliceOK(msg, start + 1, end) THEN Panic
                                ELSE NoErr,
                        !.done = TRUE]
    /\ UNCHANGED sessionVars

\* messages of the reply to MLST: three lines with the facts in the second,
\* and one line
MlstMessages == {<<"x", "\n", " ", "t", "y", "p", "e", "=", "f", "i", "l", "e", ";", " ">>
                   \o n \o <<"\n", "E">> : n \in RawNames}
                \cup {<<"x">>}

MInfo ==
    /\ call.fn = ""
    /\ \E path \in Paths, code \in {StatusRequestedFileActionOK, 550}, resp \in MlstMessages :
         LET c     == call.in.c
             err   == CmdErr(StatusRequestedFileActionOK, code)
             lines == Split(resp, "\n")
             fine  == Len(lines) = 3 /\ Len(lines[2]) > 1
             entry == parseMListLine(c, Tail(lines[2]))
         IN  call' = [call EXCEPT
                        !.fn = "MInfo",
                        !.in = [c |-> c, path |-> path, msg |-> resp],
                        !.sent = <<Sent("MLST", toServerEncoding(c, path))>>,
                        !.out = IF err = NoErr /\ fine /\ entry.err = NoErr
                                THEN <<[name |-> entry.name, Facts |-> entry.Facts]>>
                                ELSE <<>>,
                        !.err = IF err # NoErr THEN err
                                ELSE IF fine THEN entry.err
                                ELSE TextErr("unexpected MLST response", resp),
                        !.done = TRUE]
    /\ UNCHANGED sessionVars

\* path = c.toServerEncoding(path); conn, err := c.cmdDataConnFrom(offset, verb+" %s", path)
\* of RetrFrom and StorFrom
TransferCmd(name, verb) ==
    /\ call.fn = ""
    /\ \E path \in Paths, err \in {NoErr, ReplyErr(550, <<"b">>)} :
         call' = [call EXCEPT !.fn = name,
                              !.in = [c |-> call.in.c, path |-> path],
                              !.sent = <<Sent(verb, toServerEncoding(call.in.c, path))>>,
                              !.err = err,
                              !.done = TRUE]
    /\ UNCHANGED sessionVars

RetrPath == TransferCmd("RetrFrom", "RETR")

StorPath == TransferCmd("StorFrom", "STOR")

\* the line of a file of this name in a LIST stream, and in an MLSD stream
ListLineOf(name) ==
    <<"-", "r", " ", "1", " ", "u", " ", "g", " ", "4", " ", "N", "o", "v", " ", "5", " ",
      "1", "0", ":", "3", "0", " ">> \o name

MListLineOf(name) == <<"t", "y", "p", "e", "=", "f", "i", "l", "e", ";", " ">> \o name

\* a listing up to the start of its loop: the command with the path, then the
\* data stream, or the error of cmdDataConnFrom
ListingCmd(name, verb, streams) ==
    /\ call.fn = ""
    /\ \E path \in Paths :
         LET c    == call.in.c
             sent == <<Sent(verb, toServerEncoding(c, path))>>
         IN  \/ call' = [fn |-> name, in |-> [c |-> c, path |-> path, now |-> Today,
                                               stream |-> <<>>],
                         sent |-> sent, rest |-> <<>>, out |-> <<>>,
                         err |-> ReplyErr(550, <<"b">>), done |-> TRUE]
             \/ \E st \in streams :
                  call' = [fn |-> name, in |-> [c |-> c, path |-> path, now |-> Today,
                                                stream |-> st],
                           sent |-> sent, rest |-> st, out |-> <<>>,
                           err |-> NoErr, done |-> FALSE]
    /\ UNCHANGED sessionVars

NameList == ListingCmd("NameList", "NLST",
                       Streams(RawNames, CRLF, {<<>>, <<"a">>}, EncodingLines))

List == ListingCmd("List", "LIST",
                   Streams({ListLineOf(n) : n \in RawNames}, CRLF, {<<>>}, EncodingLines))

MList == ListingCmd("MList", "MLSD",
                    Streams({MListLineOf(n) : n \in RawNames}, CRLF, {<<>>}, EncodingLines))

\* bufio.ScanLines drops one "\r" at the end of a line
dropCR(data) == IF data # <<>> /\ data[Len(data)] = "\r"
                THEN SubSeq(data, 1, Len(data) - 1) ELSE data

\* scanner.Scan() returned a line, the last one whether or not it ends in "\n"
nameListToken ==
    /\ call.fn = "NameList"
    /\ ~call.done
    /\ call.rest # <<>>
    /\ LET n == IF In(call.rest, "\n") THEN Pos(call.rest, "\n") ELSE Len(call.rest) + 1
           Text == dropCR(SubSeq(call.rest, 1, n - 1))
       IN  call' = [call EXCEPT
                      !.rest = SubSeq(call.rest, n + 1, Len(call.rest)),
                      !.out  = Append(call.out, fromServerEncoding(call.in.c, Text))]
    /\ UNCHANGED sessionVars

\* scanner.Scan() returned false at the end of the stream: return entries, nil
nameListEnd ==
    /\ call.fn = "NameList"
    /\ ~call.done
    /\ call.rest = <<>>
    /\ call' = [call EXCEPT !.done = TRUE]
    /\ UNCHANGED sessionVars

\* scanner.Scan() returned false on a read error (here between two lines):
\* return entries, err
nameListFails ==
    /\ call.fn = "NameList"
    /\ ~call.done
    /\ call' = [call EXCEPT !.err = IOErr, !.done = TRUE]
    /\ UNCHANGED sessionVars

NextEncoding ==
    \/ ChangeDir \/ Delete \/ MakeDir \/ RemoveDir \/ Rename \/ CurrentDir \/ MInfo
    \/ RetrPath \/ StorPath
    \/ NameList \/ nameListToken \/ nameListEnd \/ nameListFails
    \/ List \/ listLine \/ listEOF \/ listReadFails
    \/ MList \/ mlistLine \/ mlistEOF \/ mlistReadFails

SpecEncoding == InitEncoding /\ [][NextEncoding]_vars

\* the transcoder is due: no "UTF8" among the features, TranslateEncoding set
Due(c) == UTF8 \notin DOMAIN c.features /\ c.TranslateEncoding

\* a path as it must be written, a name received as it must be returned
Wire(c, s) == IF Due(c) THEN Chars(UTF8ToISO8859_15(Codes(s))) ELSE s

Local(c, s) == IF Due(c) THEN Chars(ISO8859_15ToUTF8(Codes(s))) ELSE s

\* the same connection without transcoding: its parsers give the names as
\* the server sent them
Raw(c) == [c EXCEPT !.TranslateEncoding = FALSE]

PathOps == {"NameList", "List", "MList", "MInfo", "ChangeDir", "RetrFrom", "StorFrom",
            "Rename", "Delete", "MakeDir", "RemoveDir"}

\* the names of a stream as NameList, List and MList receive them
NamesReceived(c, fn, st) ==
    IF fn = "NameList" THEN [i \in 1..Len(AllLines(st)) |-> dropCR(AllLines(st)[i])]
    ELSE LET lines == CompleteLines(st)
         IN  IF fn = "List"
             THEN LET parsed == [i \in 1..Len(lines) |-> parseListLine(Raw(c), Today, lines[i])]
                      Accepted(r) == r.kind = "ok"
                      accepted == SelectSeq(parsed, Accepted)
                  IN  [i \in 1..Len(accepted) |-> accepted[i].e.Name]
             ELSE LET parsed == [i \in 1..Len(lines) |-> parseMListLine(Raw(c), lines[i])]
                      Kept(e) == e.err = NoErr /\ (c.ListDotDirs \/ e.name \notin DotNames)
                      kept == SelectSeq(parsed, Kept)
                  IN  [i \in 1..Len(kept) |-> kept[i].name]

NameOf(fn, entry) == IF fn = "NameList" THEN entry
                     ELSE IF fn = "List" THEN entry.Name ELSE entry.name

\* C17: text goes through the transcoder iff the feature set has no "UTF8"
\* entry and TranslateEncoding is true, and is unchanged otherwise, in both
\* directions and on every operation: the argument of NLST, LIST, MLSD, MLST,
\* CWD, RETR, STOR, RNFR, RNTO, DELE, MKD and RMD is the path in server
\* encoding, and the names NameList, List, MList, MInfo and CurrentDir return
\* are the names received in local encoding.
C17_Transcoding ==
    LET c == call.in.c
    IN  /\ call.fn \in PathOps =>
             (Len(call.sent) >= 1 /\ call.sent[1].arg = Wire(c, call.in.path))
        /\ (call.fn = "Rename" /\ call.err = NoErr) =>
             (Len(call.sent) = 2 /\ call.sent[2].arg = Wire(c, call.in.to))
        /\ call.fn \in ListingOps =>
             LET names == NamesReceived(c, call.fn, call.in.stream)
             IN  /\ Len(call.out) <= Len(names)
                 /\ \A i \in 1..Len(call.out) :
                      NameOf(call.fn, call.out[i]) = Local(c, names[i])
                 /\ (call.done /\ call.err = NoErr) => Len(call.out) = Len(names)
        /\ (call.fn = "MInfo" /\ call.err = NoErr) =>
             call.out[1].name =
               Local(c, parseMListLine(Raw(c), Tail(Split(call.in.msg, "\n")[2])).name)
        /\ (call.fn = "CurrentDir" /\ call.err = NoErr) =>
             call.out = <<Local(c, Slice(call.in.msg, Index(call.in.msg, <<"\"">>) + 1,
                                         LastIndex(call.in.msg, <<"\"">>)))>>

\* MList of a path with the euro sign sent the path and returned a name in
\* the other encoding
C17_Witness ==
    /\ call.fn = "MList"
    /\ call.done
    /\ call.err = NoErr
    /\ call.in.c.TranslateEncoding
    /\ call.in.path = <<"<20AC>", "<E9>">>
    /\ call.sent = <<Sent("MLSD", <<"<A4>", "<E9>">>)>>
    /\ call.in.stream = MListLineOf(<<"<A4>", "<E9>">>) \o CRLF
    /\ call.out[1].name = <<"<20AC>", "<E9>">>

\* C20: whenever the terminating reply read at the end of NameList, List or
\* MList fails or carries a code other than closing-data-connection, the
\* operation returns a non-nil error.
C20_ListingSurfacesClosingReply ==
    (/\ pc = "idle"
     /\ ret.op \in ListingOps
     /\ cur.site = "LCLOSE"
     /\ res.err # NoErr)
    => ret.err # NoErr

(***************************************************************************)
(* The feature set over the life of a session.                             *)
(***************************************************************************)
\* the feature lines of a FEAT reply message: the lines that begin with a space
FeatureLines(msg) ==
    LET lines == Split(msg, "\n")
    IN  {lines[k] : k \in {j \in 1..Len(lines) : lines[j] # <<>> /\ lines[j][1] = " "}}

\* the command name of a feature line, as received
FeatureName(l) ==
    LET t == TrimSpace(l)
    IN  IF \E k \in 1..Len(t) : t[k] = " "
        THEN SubSeq(t, 1, (CHOOSE k \in 1..Len(t) :
                              t[k] = " " /\ \A j \in 1..(k - 1) : t[j] # " ") - 1)
        ELSE t

\* the parameters of a feature line
FeatureDesc(l) ==
    LET t == TrimSpace(l)
        n == Len(FeatureName(l))
    IN  IF n = Len(t) THEN <<>> ELSE SubSeq(t, n + 2, Len(t))

\* Connect has returned a session
Connected == pc \notin {"start", "end"} /\ ~(pc # "idle" /\ nops = 0)

\* C21: the feature set is written once, by the FEAT exchange inside Connect:
\* when Connect returns, the set holds exactly the command names of the feature
\* lines of the FEAT reply, in the case they were received in, each with its
\* parameters (and is empty when the reply was not a feature list); from then
\* on no step of any operation, successful or failed, changes the set.
C21_FeatureSet ==
    /\ [](pc = "idle" /\ nops = 0 =>
            IF res.code # StatusSystem THEN features = NoFeatures
            ELSE /\ DOMAIN features = {FeatureName(l) : l \in FeatureLines(res.msg)}
                 /\ \A n \in DOMAIN features :
                      \E l \in FeatureLines(res.msg) :
                        FeatureName(l) = n /\ features[n] = FeatureDesc(l))
    /\ [][/\ features' # features =>
               (pc = "got" /\ cur.site = "FEAT" /\ nops = 0 /\ features = NoFeatures)
          /\ Connected => features' = features]_vars

\* a failed operation has returned on a session whose features hold a name
\* received in lower case
C21_Witness ==
    /\ pc = "idle"
    /\ nops > 0
    /\ ret.err # NoErr
    /\ DOMAIN features = {UTF8, nat6}
    /\ features[nat6] = <<"x">>

(***************************************************************************)
(* pasv and epsv on every message the expected code can carry.             *)
(***************************************************************************)
\* most comma-separated fields between the parentheses of a PASV message
MaxFields == 6

PasvFieldTexts == <<"1", "2", "3", "4", "0", "9", "5">>

\* the first n fields, joined with commas
RECURSIVE PasvJoin(_)
PasvJoin(n) ==
    IF n = 0 THEN <<>>
    ELSE IF n = 1 THEN <<PasvFieldTexts[1]>>
    ELSE PasvJoin(n - 1) \o <<",", PasvFieldTexts[((n - 1) % Len(PasvFieldTexts)) + 1]>>

\* parentheses around 0..MaxFields fields, and parentheses the wrong way round
AnyPasvMessages ==
    {lead \o <<"(">> \o PasvJoin(n) \o <<")">> \o trail :
        lead \in {<<>>, <<"a", " ">>, <<")", " ">>},
        n \in 0..MaxFields,
        trail \in {<<>>, <<".">>, <<" ", "(">>}}
    \cup {<<")">> \o mid \o <<"(">> : mid \in {<<>>, <<" ">>, PasvJoin(MaxFields)}}

\* the EPSV messages, and those that end inside the "|||" opener
AnyEpsvMessages ==
    EpsvMessages
    \cup {lead \o <<"|", "|", "|">> : lead \in EpsvLeads}
    \cup {<<"|", "|">>, <<"|">>, <<>>}

InitDataPort ==
    /\ NewConn
    /\ call \in {[fn |-> "pasv", in |-> m, out |-> <<>>, done |-> FALSE] :
                    m \in AnyPasvMessages}
                \cup {[fn |-> "epsv", in |-> m, out |-> <<>>, done |-> FALSE] :
                         m \in AnyEpsvMessages}

SpecDataPort == InitDataPort /\ [][pasvCall \/ epsvCall]_vars

\* C22: pasv and epsv return a port or an error for every message: none
\* makes them stop with an out-of-range access, whether the parentheses of a
\* PASV message enclose fewer than six fields or come in the order ")" "(", or
\* the last "|" of an EPSV message belongs to the "|||" opener.
C22_NoOutOfRange ==
    call.done => /\ call.out.kind \in {"ok", "err"}
                 /\ call.out.kind = "ok" <=> call.out.err = NoErr

=============================================================================
